---------------------------- MODULE Spec2Model ----------------------------
(***************************************************************************)
(* Tiled-inference pipeline of the fire-alarm takeoff assistant:           *)
(*   - TileCache (modules/roboflow_detector.py): LRU cache of results,     *)
(*   - RoboflowDetector.detect_on_tile / process_all_tiles_sequential /    *)
(*     process_all_tiles_parallel: orchestration and coordinate remap,     *)
(*   - PDFProcessor.create_tiles (modules/pdf_processor.py): the tiler,    *)
(*   - DetectionVisualizer.remove_overlapping_detections: the overlap      *)
(*     resolver (its module is not part of the sources; modelled from the  *)
(*     design document, section 4.4).                                      *)
(*                                                                         *)
(* Python objects are modelled with a heap: a prediction dict is a heap    *)
(* cell, a detection result is the list of the references of its           *)
(* prediction dicts.  Storing, returning and appending an object stores,   *)
(* returns and appends the reference, as in Python.                        *)
(***************************************************************************)
EXTENDS Integers, Sequences, FiniteSets, TLC

VARIABLES
    \* ---- TileCache
    cache,          \* OrderedDict: sequence of [key, val], head = least recent
    hits,           \* TileCache.hits
    misses,         \* TileCache.misses
    \* ---- history of the direct cache calls (SpecCache)
    clock,          \* number of cache calls made so far
    lastUse,        \* key -> its latest use: [at: clock value, by: the call]
    lastCall,       \* the call made last: [op, key, ret]
    \* ---- heap of prediction dicts and the Detector's history
    heap,           \* reference -> prediction dict
    detected,       \* reference -> what the Detector returned for it
    detLog,         \* Detector calls of the current run: [calls, failed]
    \* ---- one orchestration run (process_all_tiles_*)
    phase,          \* "idle" | "seq" | "par" | "par_cancel" | "par_exit" | "done"
    runs,           \* runs started so far
    tiles,          \* the tile list of the run
    opts,           \* [parallel, use_cache, early_stop_count]
    all_detections, \* list of references
    processed,
    early_stopped,
    cursor,         \* index of the next tile (sequential loop, cancel loop)
    fut,            \* parallel mode: state of each future: "pending" |
                    \* "running" | "finished" | "consumed" | "cancelled"
    futResult,      \* parallel mode: result of each finished future
    stats,          \* the statistics dict returned by the run
    \* ---- PDFProcessor.create_tiles
    tIn,            \* arguments of the call
    tPhase,         \* position in create_tiles
    tTiles,         \* its local list `tiles`
    tStats,         \* its local dict `stats`
    tNextId,        \* its local `tile_id`
    \* ---- overlap resolver
    nIn,            \* the detections handed to the resolver
    nOut,           \* its output
    nOut2,          \* the output of a second application
    nPhase,
    \* ---- threads calling one TileCache (SpecLock)
    lock,           \* TileCache.lock: 0 (free) or the thread that holds it
    wk,             \* per thread: the call it is in, its position and locals
    serial,         \* the cache a serial execution of the calls would hold
    \* ---- _run_local_detection_analysis
    aIn,            \* the document and the requested pages
    aPhase,         \* "idle" | "analyse" | "done"
    images,         \* what pdf_to_images returned: the page each image shows
    page_analyses,  \* its local list `page_analyses`
    aCursor,        \* 1 + the loop index `i`
    aResult,        \* the dict it returns
    \* ---- temporary files of detect_on_tile
    tmpFiles,       \* the temporary files that exist
    dt,             \* detect_on_tile: [pc, n, file, temp_path, ret]
    \* ---- RoboflowDetector._initialize_model
    im              \* [pc, attempt, retry_delay, slept, log]

cacheVars == <<cache, hits, misses>>
histVars  == <<clock, lastUse, lastCall>>
heapVars  == <<heap, detected, detLog>>
runVars   == <<phase, runs, tiles, opts, all_detections, processed,
               early_stopped, cursor, fut, futResult, stats>>
tileVars  == <<tIn, tPhase, tTiles, tStats, tNextId>>
nmsVars   == <<nIn, nOut, nOut2, nPhase>>
lockVars  == <<lock, wk, serial>>
batchVars == <<aIn, aPhase, images, page_analyses, aCursor, aResult>>
tempVars  == <<tmpFiles, dt>>
modelVars == <<im>>
vars == <<cacheVars, histVars, heapVars, runVars, tileVars, nmsVars, lockVars,
          batchVars, tempVars, modelVars>>

-----------------------------------------------------------------------------
(* Generic helpers *)

Range(s) == {s[i] : i \in 1..Len(s)}

SeqsUpTo(S, n) == UNION {[1..k -> S] : k \in 0..n}

Max(a, b) == IF a >= b THEN a ELSE b
Min(a, b) == IF a <= b THEN a ELSE b

-----------------------------------------------------------------------------
(* Bounds of the model *)

\* TileCache.max_size of the modelled cache (the constructor's argument).
MaxSize == 2

\* Number of direct cache calls explored in SpecCache.
MaxOps == 4

-----------------------------------------------------------------------------
(* TileCache *)

\* get_tile_hash: the digest of the tile's pixel bytes.  A tile image is
\* modelled by its content (equal bytes = equal content).
get_tile_hash(image) == <<"md5", image>>

CacheKeys(c) == {c[i].key : i \in 1..Len(c)}

CacheIndex(c, k) == CHOOSE i \in 1..Len(c) : c[i].key = k

\* self.cache[tile_hash]
CacheValue(c, k) == c[CacheIndex(c, k)].val

\* OrderedDict.move_to_end(key)
MoveToEnd(c, k) ==
    LET i == CacheIndex(c, k)
    IN  SubSeq(c, 1, i - 1) \o SubSeq(c, i + 1, Len(c)) \o <<c[i]>>

\* self.cache[key] = value: overwrite in place, or append a new key
Assign(c, k, v) ==
    IF k \in CacheKeys(c)
    THEN [c EXCEPT ![CacheIndex(c, k)].val = v]
    ELSE Append(c, [key |-> k, val |-> v])

\* OrderedDict.popitem(last=False)
PopFirst(c) == Tail(c)

\* A set that forgets to evict (used to test the cache properties).
SetNoEvict(c, k, v, max) == MoveToEnd(Assign(c, k, v), k)

\* A get that does not refresh the recency order (used likewise).
GetNoTouch(c, k) == c

\* TileCache.get: the dict after the call
CacheAfterGet(c, k) == IF k \in CacheKeys(c) THEN MoveToEnd(c, k) ELSE c

\* TileCache.set: the dict after the call
CacheAfterSet(c, k, v, max) ==
    LET d == MoveToEnd(Assign(c, k, v), k)
    IN  IF Len(d) > max THEN PopFirst(d) ELSE d

\* A get that does not count its misses (used to test the accounting).
GetMissUncounted(st, k) ==
    IF k \in CacheKeys(st.cache)
    THEN [cache |-> CacheAfterGet(st.cache, k), hits |-> st.hits + 1,
          misses |-> st.misses, hit |-> TRUE, val |-> CacheValue(st.cache, k)]
    ELSE [cache |-> st.cache, hits |-> st.hits,
          misses |-> st.misses, hit |-> FALSE, val |-> <<>>]

\* TileCache.get as a whole, on the cache state st = [cache, hits, misses]:
\* the state after the call and what the call returns (hit = FALSE: None).
TileCache_get(st, k) ==
    IF k \in CacheKeys(st.cache)
    THEN [cache |-> CacheAfterGet(st.cache, k), hits |-> st.hits + 1,
          misses |-> st.misses, hit |-> TRUE, val |-> CacheValue(st.cache, k)]
    ELSE [cache |-> st.cache, hits |-> st.hits,
          misses |-> st.misses + 1, hit |-> FALSE, val |-> <<>>]

\* TileCache.set as a whole
TileCache_set(st, k, v) ==
    [cache |-> CacheAfterSet(st.cache, k, v, MaxSize),
     hits |-> st.hits, misses |-> st.misses]

\* TileCache.clear
TileCache_clear(st) == [cache |-> <<>>, hits |-> 0, misses |-> 0]

\* TileCache.get_stats (hit_rate is hits / total * 100, kept as the pair)
TileCache_get_stats(st) ==
    [hits |-> st.hits, misses |-> st.misses, total |-> st.hits + st.misses,
     size |-> Len(st.cache)]

CacheState == [cache |-> cache, hits |-> hits, misses |-> misses]

-----------------------------------------------------------------------------
(* Values every specification gives the variables it does not use *)

NoCall == [op |-> "none", key |-> <<>>, ret |-> <<>>]

IdleCache == cache = <<>> /\ hits = 0 /\ misses = 0
IdleHist  == clock = 0 /\ lastUse = <<>> /\ lastCall = NoCall
NoDetectorCall == [calls |-> 0, failed |-> 0]

IdleHeap  == heap = <<>> /\ detected = <<>> /\ detLog = NoDetectorCall
IdleRun   == /\ phase = "idle" /\ runs = 0 /\ tiles = <<>> /\ opts = <<>>
             /\ all_detections = <<>> /\ processed = 0
             /\ early_stopped = FALSE /\ cursor = 0 /\ fut = <<>>
             /\ futResult = <<>> /\ stats = <<>>
IdleTiler == /\ tIn = <<>> /\ tPhase = "idle" /\ tTiles = <<>>
             /\ tStats = <<>> /\ tNextId = 0
IdleNms   == nIn = <<>> /\ nOut = <<>> /\ nOut2 = <<>> /\ nPhase = "idle"
IdleLock  == lock = 0 /\ wk = <<>> /\ serial = <<>>
IdleBatch == /\ aIn = <<>> /\ aPhase = "idle" /\ images = <<>>
             /\ page_analyses = <<>> /\ aCursor = 0 /\ aResult = <<>>
NoTempCall == [pc |-> "idle", n |-> 0, file |-> 0, temp_path |-> 0,
               ret |-> "None"]
IdleTemp  == tmpFiles = {} /\ dt = NoTempCall
IdleModel == im = <<>>

-----------------------------------------------------------------------------
(* SpecCache: a TileCache driven directly by get, set, clear, get_stats.  *)
(* Each call runs under self.lock, so it is one atomic step.             *)

\* Fingerprints used by the direct calls: one more than the cache holds.
CallKeys == {get_tile_hash(i) : i \in 1..(MaxSize + 1)}

\* Results handed to set (two, so that an overwrite is visible).
CallValues == {<<1>>, <<2>>}

InitCache ==
    /\ IdleCache
    /\ clock = 0
    /\ lastUse = [k \in CallKeys |-> [at |-> 0, by |-> "none"]]
    /\ lastCall = NoCall
    /\ IdleHeap /\ IdleRun /\ IdleTiler /\ IdleNms /\ IdleLock /\ IdleBatch /\ IdleTemp /\ IdleModel

CallGet(k) ==
    /\ clock < MaxOps
    /\ LET r == TileCache_get(CacheState, k)
       IN  /\ cache' = r.cache /\ hits' = r.hits /\ misses' = r.misses
           /\ lastUse' = IF r.hit
                          THEN [lastUse EXCEPT
                                  ![k] = [at |-> clock + 1, by |-> "get"]]
                          ELSE lastUse
           /\ lastCall' = [op |-> "get", key |-> k,
                           ret |-> [hit |-> r.hit, val |-> r.val]]
    /\ clock' = clock + 1
    /\ UNCHANGED <<heapVars, runVars, tileVars, nmsVars,
                   lockVars, batchVars, tempVars, modelVars>>

CallSet(k, v) ==
    /\ clock < MaxOps
    /\ LET r == TileCache_set(CacheState, k, v)
       IN  cache' = r.cache /\ hits' = r.hits /\ misses' = r.misses
    /\ lastUse' = [lastUse EXCEPT ![k] = [at |-> clock + 1, by |-> "set"]]
    /\ clock' = clock + 1
    /\ lastCall' = [op |-> "set", key |-> k, ret |-> <<>>]
    /\ UNCHANGED <<heapVars, runVars, tileVars, nmsVars,
                   lockVars, batchVars, tempVars, modelVars>>

CallClear ==
    /\ clock < MaxOps
    /\ LET r == TileCache_clear(CacheState)
       IN  cache' = r.cache /\ hits' = r.hits /\ misses' = r.misses
    /\ clock' = clock + 1
    /\ lastCall' = [op |-> "clear", key |-> <<>>, ret |-> <<>>]
    /\ UNCHANGED <<lastUse, heapVars, runVars, tileVars, nmsVars,
                   lockVars, batchVars, tempVars, modelVars>>

CallGetStats ==
    /\ clock < MaxOps
    /\ clock' = clock + 1
    /\ lastCall' = [op |-> "get_stats", key |-> <<>>,
                    ret |-> TileCache_get_stats(CacheState)]
    /\ UNCHANGED <<cacheVars, lastUse, heapVars, runVars, tileVars, nmsVars,
                   lockVars, batchVars, tempVars, modelVars>>

NextCache ==
    \/ \E k \in CallKeys : CallGet(k)
    \/ \E k \in CallKeys, v \in CallValues : CallSet(k, v)
    \/ CallClear
    \/ CallGetStats

SpecCache == InitCache /\ [][NextCache]_vars

\* C1: after any sequence of get, set and clear calls the number of stored
\* entries never exceeds the configured maximum.
C1_SizeWithinMax == Len(cache) <= MaxSize

\* C1 witness: a set was called on a full cache and the cache is still full.
C1_Witness ==
    /\ lastCall.op = "set"
    /\ Len(cache) = MaxSize
    /\ \E k \in CallKeys : lastUse[k].at > 0 /\ k \notin CacheKeys(cache)

\* C2: a set that inserts a new fingerprint into a full cache evicts exactly
\* one entry, the one whose latest use (set, or get that hit) is the oldest;
\* every other entry and the new one are present afterwards.
C2_EvictsLeastRecentlyUsed ==
    [][ (/\ lastCall'.op = "set"
         /\ clock' = clock + 1
         /\ lastCall'.key \notin CacheKeys(cache)
         /\ Len(cache) = MaxSize)
        => \E h \in CacheKeys(cache) :
              /\ CacheKeys(cache') = (CacheKeys(cache) \ {h}) \cup {lastCall'.key}
              /\ \A g \in CacheKeys(cache) \ {h} : lastUse[h].at < lastUse[g].at
      ]_vars

\* C2 witness: an insertion has just evicted an entry, and an entry whose
\* latest use is a get hit, later than the evicted entry's latest use, is
\* still present.
C2_Witness ==
    /\ lastCall.op = "set"
    /\ Len(cache) = MaxSize
    /\ \E k \in CacheKeys(cache), g \in CallKeys \ CacheKeys(cache) :
          /\ lastUse[k].by = "get"
          /\ lastUse[g].by = "set"
          /\ lastUse[g].at < lastUse[k].at

\* C18: cache accounting.  Every get increments exactly one counter: hits
\* when the fingerprint is stored, misses when it is not, and a miss returns
\* None and leaves the entries and their order unchanged; a counter
\* decreases only by clear, which empties the cache and zeroes both; the
\* size get_stats reports is the number of stored entries.
C18_CacheAccounting ==
    [][ /\ (lastCall'.op = "get" /\ clock' = clock + 1)
           => IF lastCall'.key \in CacheKeys(cache)
              THEN /\ hits' = hits + 1 /\ misses' = misses
                   /\ lastCall'.ret.hit
              ELSE /\ misses' = misses + 1 /\ hits' = hits
                   /\ ~lastCall'.ret.hit
                   /\ cache' = cache
        /\ (hits' < hits \/ misses' < misses)
           => lastCall'.op = "clear" /\ clock' = clock + 1
        /\ (lastCall'.op = "clear" /\ clock' = clock + 1)
           => cache' = <<>> /\ hits' = 0 /\ misses' = 0
        /\ (lastCall'.op = "get_stats" /\ clock' = clock + 1)
           => /\ lastCall'.ret.size = Len(cache)
              /\ lastCall'.ret.hits = hits /\ lastCall'.ret.misses = misses
              /\ cache' = cache /\ hits' = hits /\ misses' = misses
      ]_vars

\* C18 witness: a get has just missed on a cache that holds an entry and
\* has counted a hit before.
C18_Witness ==
    /\ lastCall.op = "get"
    /\ ~lastCall.ret.hit
    /\ hits >= 1 /\ misses >= 1
    /\ Len(cache) >= 1

-----------------------------------------------------------------------------
(* SpecLock: several threads call get, set, clear and get_stats on one    *)
(* TileCache.  A call is a sequence of steps (the statements of its body, *)
(* `self.hits += 1` being a read and a write) taken while the thread      *)
(* holds self.lock; steps of different threads interleave freely.         *)

\* Bounds of the lock model.
MaxThreads   == 2     \* threads sharing the cache
MaxLockCalls == 3     \* calls made by all the threads together

Threads == 1..MaxThreads

LockOps == {"get", "set", "clear", "get_stats"}

\* The result handed to set: the orchestrator stores the Detector's
\* response for the tile, one value per call site.
LockValues == {<<1>>}

\* A thread outside any call.
NoThreadCall ==
    [op |-> "none", key |-> <<>>, val |-> <<>>, pc |-> "idle", tmp |-> 0,
     ret |-> <<>>, sret |-> <<>>]

\* The cache a serial execution of the completed calls holds, and the
\* number of get calls completed since the last clear.
SerialState == [cache |-> serial.cache, hits |-> serial.hits,
                misses |-> serial.misses]

\* The state of `serial` after call w, and what w returns there.
SerialAfter(w) ==
    CASE w.op = "get" ->
           LET r == TileCache_get(SerialState, w.key)
           IN  [cache |-> r.cache, hits |-> r.hits, misses |-> r.misses,
                gets |-> serial.gets + 1,
                ret |-> [hit |-> r.hit, val |-> r.val]]
      [] w.op = "set" ->
           LET r == TileCache_set(SerialState, w.key, w.val)
           IN  [cache |-> r.cache, hits |-> r.hits, misses |-> r.misses,
                gets |-> serial.gets, ret |-> <<>>]
      [] w.op = "clear" ->
           LET r == TileCache_clear(SerialState)
           IN  [cache |-> r.cache, hits |-> r.hits, misses |-> r.misses,
                gets |-> 0, ret |-> <<>>]
      [] w.op = "get_stats" ->
           [cache |-> serial.cache, hits |-> serial.hits,
            misses |-> serial.misses, gets |-> serial.gets,
            ret |-> TileCache_get_stats(SerialState)]

\* A lock that lets every thread in (used to test the atomicity property).
AcquireAnyway(l) == TRUE

\* `with self.lock:` blocks until the lock is free.
CanAcquire(l) == l = 0

InitLock ==
    /\ IdleCache /\ IdleHist
    /\ lock = 0
    /\ wk = [t \in Threads |-> NoThreadCall]
    /\ serial = [cache |-> <<>>, hits |-> 0, misses |-> 0, gets |-> 0]
    /\ IdleHeap /\ IdleRun /\ IdleTiler /\ IdleNms /\ IdleBatch /\ IdleTemp /\ IdleModel

LockFrame == UNCHANGED <<lastUse, lastCall, heapVars, runVars, tileVars,
                         nmsVars, batchVars, tempVars, modelVars>>

\* Thread t enters a call and reaches `with self.lock`.
LockCall(t, op, k, v) ==
    /\ wk[t].pc = "idle"
    /\ clock < MaxLockCalls
    /\ op \in {"get", "set"} \/ k = get_tile_hash(1)
    /\ clock' = clock + 1
    /\ wk' = [wk EXCEPT ![t] =
                 [op |-> op,
                  key |-> IF op \in {"get", "set"} THEN k ELSE <<>>,
                  val |-> IF op = "set" THEN v ELSE <<>>,
                  pc |-> "acquire", tmp |-> 0, ret |-> <<>>, sret |-> <<>>]]
    /\ UNCHANGED <<cacheVars, lock, serial>>
    /\ LockFrame

\* Line 39 / 49 / 57 / 64: the lock is taken.
LockAcquire(t) ==
    /\ wk[t].pc = "acquire"
    /\ CanAcquire(lock)
    /\ lock' = t
    /\ wk' = [wk EXCEPT ![t].pc = wk[t].op]
    /\ UNCHANGED <<cacheVars, clock, serial>>
    /\ LockFrame

\* Lines 40-45: the body of get, one statement at a time.
GetStep(t) ==
    /\ wk[t].op = "get"
    /\ \/ /\ wk[t].pc = "get"
          /\ wk' = [wk EXCEPT ![t].pc =
                       IF wk[t].key \in CacheKeys(cache)
                       THEN "hit_read" ELSE "miss_read"]
          /\ UNCHANGED cacheVars
       \/ /\ wk[t].pc = "hit_read"
          /\ wk' = [wk EXCEPT ![t].tmp = hits, ![t].pc = "hit_write"]
          /\ UNCHANGED cacheVars
       \/ /\ wk[t].pc = "hit_write"
          /\ hits' = wk[t].tmp + 1
          /\ wk' = [wk EXCEPT ![t].pc = "move"]
          /\ UNCHANGED <<cache, misses>>
       \/ /\ wk[t].pc = "move"
          /\ IF wk[t].key \in CacheKeys(cache)
             THEN /\ cache' = MoveToEnd(cache, wk[t].key)
                  /\ wk' = [wk EXCEPT ![t].pc = "return"]
             ELSE /\ cache' = cache
                  /\ wk' = [wk EXCEPT ![t].ret = "KeyError",
                                      ![t].pc = "release"]
          /\ UNCHANGED <<hits, misses>>
       \/ /\ wk[t].pc = "return"
          /\ wk' = [wk EXCEPT
                      ![t].ret = IF wk[t].key \in CacheKeys(cache)
                                 THEN [hit |-> TRUE,
                                       val |-> CacheValue(cache, wk[t].key)]
                                 ELSE "KeyError",
                      ![t].pc = "release"]
          /\ UNCHANGED cacheVars
       \/ /\ wk[t].pc = "miss_read"
          /\ wk' = [wk EXCEPT ![t].tmp = misses, ![t].pc = "miss_write"]
          /\ UNCHANGED cacheVars
       \/ /\ wk[t].pc = "miss_write"
          /\ misses' = wk[t].tmp + 1
          /\ wk' = [wk EXCEPT ![t].ret = [hit |-> FALSE, val |-> <<>>],
                              ![t].pc = "release"]
          /\ UNCHANGED <<cache, hits>>
    /\ UNCHANGED <<lock, clock, serial>>
    /\ LockFrame

\* Lines 50-53: the body of set.
SetStep(t) ==
    /\ wk[t].op = "set"
    /\ \/ /\ wk[t].pc = "set"
          /\ cache' = Assign(cache, wk[t].key, wk[t].val)
          /\ wk' = [wk EXCEPT ![t].pc = "move"]
       \/ /\ wk[t].pc = "move"
          /\ IF wk[t].key \in CacheKeys(cache)
             THEN /\ cache' = MoveToEnd(cache, wk[t].key)
                  /\ wk' = [wk EXCEPT ![t].pc = "evict"]
             ELSE /\ cache' = cache
                  /\ wk' = [wk EXCEPT ![t].ret = "KeyError",
                                      ![t].pc = "release"]
       \/ /\ wk[t].pc = "evict"
          /\ cache' = IF Len(cache) > MaxSize THEN PopFirst(cache) ELSE cache
          /\ wk' = [wk EXCEPT ![t].pc = "release"]
    /\ UNCHANGED <<hits, misses, lock, clock, serial>>
    /\ LockFrame

\* Lines 58-60: the body of clear.
ClearStep(t) ==
    /\ wk[t].op = "clear"
    /\ \/ /\ wk[t].pc = "clear"
          /\ cache' = <<>>
          /\ wk' = [wk EXCEPT ![t].pc = "zero_hits"]
          /\ UNCHANGED <<hits, misses>>
       \/ /\ wk[t].pc = "zero_hits"
          /\ hits' = 0
          /\ wk' = [wk EXCEPT ![t].pc = "zero_misses"]
          /\ UNCHANGED <<cache, misses>>
       \/ /\ wk[t].pc = "zero_misses"
          /\ misses' = 0
          /\ wk' = [wk EXCEPT ![t].pc = "release"]
          /\ UNCHANGED <<cache, hits>>
    /\ UNCHANGED <<lock, clock, serial>>
    /\ LockFrame

\* Lines 65-73: the body of get_stats.
StatsStep(t) ==
    /\ wk[t].op = "get_stats"
    /\ \/ /\ wk[t].pc = "get_stats"
          /\ wk' = [wk EXCEPT ![t].tmp = hits + misses, ![t].pc = "return"]
       \/ /\ wk[t].pc = "return"
          /\ wk' = [wk EXCEPT
                      ![t].ret = [hits |-> hits, misses |-> misses,
                                  total |-> wk[t].tmp, size |-> Len(cache)],
                      ![t].pc = "release"]
    /\ UNCHANGED <<cacheVars, lock, clock, serial>>
    /\ LockFrame

\* The `with` block is left: the lock is released and the call returns.
\* The call takes its place in the serial order here.
LockRelease(t) ==
    /\ wk[t].pc = "release"
    /\ lock' = 0
    /\ LET a == SerialAfter(wk[t])
       IN  /\ serial' = [cache |-> a.cache, hits |-> a.hits,
                         misses |-> a.misses, gets |-> a.gets]
           /\ wk' = [wk EXCEPT ![t].pc = "idle", ![t].sret = a.ret]
    /\ UNCHANGED <<cacheVars, clock>>
    /\ LockFrame

NextLock ==
    \E t \in Threads :
        \/ \E op \in LockOps, k \in CallKeys, v \in LockValues :
              LockCall(t, op, k, v)
        \/ LockAcquire(t)
        \/ GetStep(t)
        \/ SetStep(t)
        \/ ClearStep(t)
        \/ StatsStep(t)
        \/ LockRelease(t)

SpecLock == InitLock /\ [][NextLock]_vars

\* C17: under any interleaving of get, set, clear and get_stats calls made
\* by several threads, each call takes effect atomically: whenever no call
\* is inside its critical section the cache is the one a serial execution
\* of the completed calls produces, so size <= max and hits + misses = the
\* number of get calls completed since the last clear; and every call
\* returns what it returns in that serial execution.
C17_CallsAreAtomic ==
    /\ lock = 0
       => /\ CacheState = SerialState
          /\ Len(cache) <= MaxSize
          /\ hits + misses = serial.gets
    /\ \A t \in Threads :
          (wk[t].pc = "idle" /\ wk[t].op # "none")
          => wk[t].ret = wk[t].sret

\* C17 witness: a get has completed, one thread is inside the critical
\* section of a get that has already changed a counter, and another
\* thread is waiting for the lock with a set.
C17_Witness ==
    /\ serial.gets >= 1
    /\ lock # 0
    /\ wk[lock].op = "get" /\ wk[lock].pc \in {"move", "release"}
    /\ hits + misses = serial.gets + 1
    /\ \E t \in Threads \ {lock} :
          wk[t].op = "set" /\ wk[t].pc = "acquire"

-----------------------------------------------------------------------------
(* Spec: the Detection Orchestrator (RoboflowDetector) with its TileCache. *)

\* Bounds of the orchestration model.
MaxTiles   == 2     \* tiles of one run
MaxRuns    == 2     \* runs sharing the detector's cache
MaxWorkers == 2     \* max_workers of the thread pool
SubPixel   == 2     \* coordinate units per pixel (Roboflow returns floats)

\* max(20, ...) in the parallel remap
MinBoxPx == 20

\* scale_factor = 1.0 in the parallel remap
ScaleFactor == 1

Px(n) == n * SubPixel

\* int(v) for v >= 0, on values held in sub-pixel units
IntPx(v) == (v \div SubPixel) * SubPixel

\* Tile contents (pixel data) that occur on the modelled pages.
Contents == {1, 2, 3}

\* Content of a tile cut from a page with one mark: the tile-local position
\* (lx, ly) of the mark is content MarkBase * (lx + 1) + ly.
MarkBase == 10

\* The Detector capability: the tile-local detections it returns for a tile
\* content, in sub-pixel units.  Content 2 holds a box narrower than 20 px
\* whose width is not a whole number of pixels; content 3 holds no symbol;
\* for a tile that holds the page's mark, one detection centred on the mark.
DetectorOut(c) ==
    CASE c = 1 ->
           << [x |-> Px(5), y |-> Px(3), width |-> Px(50), height |-> Px(40),
               confidence |-> 9, class |-> "smoke"] >>
      [] c = 2 ->
           << [x |-> Px(4) + 1, y |-> Px(7), width |-> Px(12) + 1,
               height |-> Px(30), confidence |-> 5, class |-> "pull"] >>
      [] c >= MarkBase ->
           << [x |-> Px((c - MarkBase) \div MarkBase),
               y |-> Px((c - MarkBase) % MarkBase),
               width |-> Px(30), height |-> Px(30),
               confidence |-> 9, class |-> "smoke"] >>
      [] OTHER -> <<>>

\* The k-th tile of a run: its id and page offset (top-left corner, pixels).
TileOf(k, c) ==
    [id |-> k - 1, image |-> c, x |-> Px(3 * (k - 1)), y |-> Px(2 * (k - 1))]

TileLists ==
    { [k \in 1..n |-> TileOf(k, cs[k])] :
        n \in 1..MaxTiles, cs \in [1..MaxTiles -> Contents] }

\* Options of a run; early_stop_count 0 stands for None.  max_workers is
\* an argument of the parallel entry point only.
RunOptions ==
    [parallel : BOOLEAN, use_cache : BOOLEAN, early_stop_count : {0, 1},
     max_workers : {MaxWorkers}]

\* What a Detector call does: it returns its detections, it raises, or it
\* returns a malformed response: its detections followed by an entry that
\* has no coordinates.
Outcomes == {"ok", "raise", "malformed"}

BadEntry == [class |-> "smoke", confidence |-> 9]

DetectorResponse(c, outcome) ==
    IF outcome = "malformed" THEN Append(DetectorOut(c), BadEntry)
    ELSE DetectorOut(c)

\* ---- heap

\* The n smallest references not in use.
RECURSIVE FreshRefs(_, _)
FreshRefs(used, n) ==
    IF n = 0 THEN <<>>
    ELSE LET r == CHOOSE i \in 1..(Cardinality(used) + 1) : i \notin used
         IN  <<r>> \o FreshRefs(used \cup {r}, n - 1)

Restrict(f, S) == [r \in (DOMAIN f) \cap S |-> f[r]]

CachedRefs(c) == UNION {Range(c[i].val) : i \in 1..Len(c)}

\* predictions.json(): a new result whose prediction dicts are new objects.
\* Returns the references, the heap and the Detector's history.
Predict(h, d, c, outcome) ==
    LET out  == DetectorResponse(c, outcome)
        refs == FreshRefs(DOMAIN h, Len(out))
    IN  [refs |-> refs,
         heap |-> [r \in DOMAIN h \cup Range(refs) |->
                     IF r \in DOMAIN h THEN h[r]
                     ELSE out[CHOOSE j \in 1..Len(out) : refs[j] = r]],
         detected |-> [r \in DOMAIN d \cup Range(refs) |->
                     IF r \in DOMAIN d THEN d[r]
                     ELSE [content |-> c, outcome |-> outcome,
                           pred |-> out[CHOOSE j \in 1..Len(out) : refs[j] = r]]]]

\* ---- coordinate remap

\* dict item assignment / update on a heap cell
SetField(p, f, v) ==
    [g \in DOMAIN p \cup {f} |-> IF g = f THEN v ELSE p[g]]

\* process_all_tiles_sequential, body of `for pred in ...`
RemapPredSequential(p, tile) ==
    SetField(SetField(SetField(p, "x", p.x + tile.x),
                      "y", p.y + tile.y), "tile_id", tile.id)

\* process_all_tiles_parallel, body of `for pred in ...`
RemapPredParallel(p, tile) ==
    LET scaled_width  == Max(Px(MinBoxPx), IntPx(p.width * ScaleFactor))
        scaled_height == Max(Px(MinBoxPx), IntPx(p.height * ScaleFactor))
    IN  SetField(SetField(SetField(SetField(SetField(p,
            "x", tile.x + p.x), "y", tile.y + p.y),
            "width", scaled_width), "height", scaled_height),
            "tile_id", tile.id)

RemapPred(p, tile, parallel) ==
    IF parallel THEN RemapPredParallel(p, tile)
    ELSE RemapPredSequential(p, tile)

\* Reading a key the dict does not have raises KeyError: the parallel remap
\* reads x, y, width and height, the sequential one x and y.
RemapRaises(p, parallel) ==
    IF parallel THEN ~({"x", "y", "width", "height"} \subseteq DOMAIN p)
    ELSE ~({"x", "y"} \subseteq DOMAIN p)

\* The predictions the loop handles before it raises (all of them if it
\* does not raise).
RECURSIVE Accepted(_, _, _)
Accepted(h, refs, parallel) ==
    IF refs = <<>> THEN <<>>
    ELSE IF RemapRaises(h[Head(refs)], parallel) THEN <<>>
    ELSE <<Head(refs)>> \o Accepted(h, Tail(refs), parallel)

\* The loop over predictions['predictions']: every dict is updated in place.
RECURSIVE RemapAll(_, _, _, _)
RemapAll(h, refs, tile, parallel) ==
    IF refs = <<>> THEN h
    ELSE RemapAll([h EXCEPT ![Head(refs)] = RemapPred(h[Head(refs)], tile, parallel)],
                  Tail(refs), tile, parallel)

\* An early-stop test that fires one detection late (used to test the
\* early-stop properties).
EarlyStopLate(dets, count) == count # 0 /\ Len(dets) > count

\* `early_stop_count and len(all_detections) >= early_stop_count`
EarlyStopReached(dets, count) == count # 0 /\ Len(dets) >= count

\* ---- detect_on_tile

DetectorState ==
    [cache |-> cache, hits |-> hits, misses |-> misses,
     heap |-> heap, detected |-> detected, detLog |-> detLog]

\* What a detect_on_tile call hands back: a result dict (some), None, or an
\* exception that leaves the call (exc).
NoResult == [some |-> FALSE, refs |-> <<>>, exc |-> FALSE]

Raised == [some |-> FALSE, refs |-> <<>>, exc |-> TRUE]

\* A lookup that counts the call but never returns the stored result
\* (used to test the cache-hit property).
LookupNeverHits(st, image, use_cache) ==
    [cache |-> st.cache, hits |-> st.hits,
     misses |-> st.misses + (IF use_cache THEN 1 ELSE 0),
     heap |-> st.heap, detected |-> st.detected, detLog |-> st.detLog,
     done |-> FALSE, result |-> NoResult]

\* A lookup that consults the cache whatever use_cache says (used to test
\* the properties of runs without cache).
LookupIgnoresSwitch(st, image, use_cache) ==
    LET g == TileCache_get(st, get_tile_hash(image))
    IN  [cache |-> g.cache, hits |-> g.hits, misses |-> g.misses,
         heap |-> st.heap, detected |-> st.detected, detLog |-> st.detLog,
         done |-> g.hit, result |-> [some |-> g.hit, refs |-> g.val, exc |-> FALSE]]

\* Lines 156-160: the cache lookup.  done: the call returns the cached result.
detect_lookup(st, image, use_cache) ==
    IF use_cache
    THEN LET g == TileCache_get(st, get_tile_hash(image))
         IN  [cache |-> g.cache, hits |-> g.hits, misses |-> g.misses,
              heap |-> st.heap, detected |-> st.detected, detLog |-> st.detLog,
              done |-> g.hit, result |-> [some |-> g.hit, refs |-> g.val, exc |-> FALSE]]
    ELSE [cache |-> st.cache, hits |-> st.hits, misses |-> st.misses,
          heap |-> st.heap, detected |-> st.detected, detLog |-> st.detLog,
          done |-> FALSE, result |-> NoResult]

\* Lines 166-190: the Detector call.  If it raises, the call returns None.
\* Otherwise the object predictions.json() returned is stored in the cache
\* and returned, whatever it holds.
detect_predict(st, image, use_cache, outcome) ==
    IF outcome = "raise"
    THEN [cache |-> st.cache, hits |-> st.hits, misses |-> st.misses,
          heap |-> st.heap, detected |-> st.detected,
          detLog |-> [calls |-> st.detLog.calls + 1,
                      failed |-> st.detLog.failed + 1],
          result |-> NoResult]
    ELSE LET p == Predict(st.heap, st.detected, image, outcome)
             c == IF use_cache
                  THEN TileCache_set(st, get_tile_hash(image), p.refs)
                  ELSE [cache |-> st.cache, hits |-> st.hits,
                        misses |-> st.misses]
         IN  [cache |-> c.cache, hits |-> c.hits, misses |-> c.misses,
              heap |-> p.heap, detected |-> p.detected,
              detLog |-> [calls |-> st.detLog.calls + 1,
                          failed |-> st.detLog.failed +
                                     (IF outcome = "ok" THEN 0 ELSE 1)],
              result |-> [some |-> TRUE, refs |-> p.refs, exc |-> FALSE]]

detect_on_tile(st, image, use_cache, outcome) ==
    LET l == detect_lookup(st, image, use_cache)
    IN  IF l.done
        THEN [cache |-> l.cache, hits |-> l.hits, misses |-> l.misses,
              heap |-> l.heap, detected |-> l.detected, detLog |-> l.detLog,
              result |-> l.result]
        ELSE detect_predict(l, image, use_cache, outcome)

\* The statistics dict of a run (without the wall-clock time).
RunStats(st, n, stopped, dets) ==
    [processed |-> n,
     cache_hits |-> TileCache_get_stats(st).hits,
     cache_misses |-> TileCache_get_stats(st).misses,
     early_stopped |-> stopped,
     objects_found |-> Len(dets)]

\* ---- a run

Init ==
    /\ IdleCache /\ IdleHist /\ IdleHeap /\ IdleRun /\ IdleTiler /\ IdleNms
    /\ IdleLock /\ IdleBatch /\ IdleTemp /\ IdleModel

\* A caller starts process_all_tiles_sequential or process_all_tiles_parallel.
\* The lists of the previous run are dropped: prediction dicts that the
\* cache does not hold are garbage.
StartRun(ts, o) ==
    /\ phase \in {"idle", "done"}
    /\ runs < MaxRuns
    /\ runs' = runs + 1
    /\ tiles' = ts
    /\ opts' = o
    /\ heap' = Restrict(heap, CachedRefs(cache))
    /\ detected' = Restrict(detected, CachedRefs(cache))
    /\ detLog' = NoDetectorCall
    /\ all_detections' = <<>>
    /\ processed' = 0
    /\ early_stopped' = FALSE
    /\ cursor' = 1
    /\ stats' = <<>>
    /\ IF o.parallel
       THEN /\ phase' = "par"
            /\ fut' = [k \in 1..Len(ts) |-> "pending"]
            /\ futResult' = [k \in 1..Len(ts) |-> NoResult]
       ELSE /\ phase' = "seq"
            /\ fut' = <<>>
            /\ futResult' = <<>>
    /\ UNCHANGED <<cacheVars, histVars, tileVars, nmsVars,
                   lockVars, batchVars, tempVars, modelVars>>

\* process_all_tiles_sequential: one iteration of `for tile in tiles`.
\* An exception of the remap loop leaves the predictions handled so far in
\* the list and skips the early-stop test of the iteration.
SeqStep(outcome) ==
    /\ phase = "seq"
    /\ cursor <= Len(tiles)
    /\ ~early_stopped
    /\ LET tile == tiles[cursor]
           r    == detect_on_tile(DetectorState, tile.image, opts.use_cache,
                                  outcome)
           acc  == Accepted(r.heap, r.result.refs, FALSE)
           dets == all_detections \o acc
       IN  /\ cache' = r.cache /\ hits' = r.hits /\ misses' = r.misses
           /\ detected' = r.detected /\ detLog' = r.detLog
           /\ heap' = RemapAll(r.heap, acc, tile, FALSE)
           /\ all_detections' = dets
           /\ early_stopped' = /\ Len(acc) = Len(r.result.refs)
                               /\ EarlyStopReached(dets, opts.early_stop_count)
    /\ processed' = processed + 1
    /\ cursor' = cursor + 1
    /\ UNCHANGED <<phase, runs, tiles, opts, fut, futResult, stats,
                   histVars, tileVars, nmsVars,
                   lockVars, batchVars, tempVars, modelVars>>

\* process_all_tiles_sequential: after the loop.
SeqFinish ==
    /\ phase = "seq"
    /\ cursor > Len(tiles) \/ early_stopped
    /\ stats' = RunStats(CacheState, processed, early_stopped, all_detections)
    /\ phase' = "done"
    /\ UNCHANGED <<cacheVars, histVars, heapVars, runs, tiles, opts,
                   all_detections, processed, early_stopped, cursor, fut,
                   futResult, tileVars, nmsVars,
                   lockVars, batchVars, tempVars, modelVars>>

\* An executor exit that sees no worker (used to test that a run waits
\* for its workers).
NoneRunning == {}

Running == {k \in 1..Len(fut) : fut[k] = "running"}
Pending == {k \in 1..Len(fut) : fut[k] = "pending"}

\* A pool thread takes the next queued future (the queue is FIFO) and runs
\* detect_on_tile up to the cache lookup.
WorkerStart(k) ==
    /\ phase \in {"par", "par_cancel", "par_exit"}
    /\ k \in Pending
    /\ \A j \in Pending : k <= j
    /\ Cardinality(Running) < opts.max_workers
    /\ LET l == detect_lookup(DetectorState, tiles[k].image, opts.use_cache)
       IN  /\ cache' = l.cache /\ hits' = l.hits /\ misses' = l.misses
           /\ fut' = [fut EXCEPT ![k] = IF l.done THEN "finished" ELSE "running"]
           /\ futResult' = [futResult EXCEPT ![k] = l.result]
    /\ UNCHANGED <<heapVars, histVars, phase, runs, tiles, opts,
                   all_detections, processed, early_stopped, cursor, stats,
                   tileVars, nmsVars,
                   lockVars, batchVars, tempVars, modelVars>>

\* The pool thread's Detector call returns (or raises) and the call ends.
WorkerPredict(k, outcome) ==
    /\ phase \in {"par", "par_cancel", "par_exit"}
    /\ k \in Running
    /\ LET r == detect_predict(DetectorState, tiles[k].image, opts.use_cache,
                               outcome)
       IN  /\ cache' = r.cache /\ hits' = r.hits /\ misses' = r.misses
           /\ heap' = r.heap /\ detected' = r.detected /\ detLog' = r.detLog
           /\ futResult' = [futResult EXCEPT ![k] = r.result]
    /\ fut' = [fut EXCEPT ![k] = "finished"]
    /\ UNCHANGED <<histVars, phase, runs, tiles, opts, all_detections,
                   processed, early_stopped, cursor, stats, tileVars, nmsVars,
                   lockVars, batchVars, tempVars, modelVars>>

\* process_all_tiles_parallel: one iteration of `for future in as_completed`.
MainConsume(k) ==
    /\ phase = "par"
    /\ k <= Len(fut)
    /\ fut[k] = "finished"
    /\ LET tile == tiles[k]
           refs == futResult[k].refs
           acc  == Accepted(heap, refs, TRUE)
           dets == all_detections \o acc
           f2   == [fut EXCEPT ![k] = "consumed"]
           stop == /\ ~futResult[k].exc
                   /\ Len(acc) = Len(refs)
                   /\ EarlyStopReached(dets, opts.early_stop_count)
       IN  /\ heap' = RemapAll(heap, acc, tile, TRUE)
           /\ all_detections' = dets
           /\ fut' = f2
           /\ early_stopped' = stop
           /\ phase' = IF stop THEN "par_cancel"
                       ELSE IF \A j \in 1..Len(f2) : f2[j] = "consumed"
                            THEN "par_exit" ELSE "par"
    /\ processed' = processed + 1
    /\ cursor' = 1
    /\ UNCHANGED <<cacheVars, histVars, detected, detLog, runs, tiles, opts,
                   futResult, stats, tileVars, nmsVars,
                   lockVars, batchVars, tempVars, modelVars>>

\* A cancel loop that also stops the calls that are executing (used to test
\* the cancellation property).
MainCancelInterrupts ==
    /\ phase = "par_cancel"
    /\ fut' = IF cursor <= Len(fut) /\ fut[cursor] \in {"pending", "running"}
              THEN [fut EXCEPT ![cursor] = "cancelled"] ELSE fut
    /\ cursor' = cursor + 1
    /\ phase' = IF cursor >= Len(fut) THEN "par_exit" ELSE "par_cancel"
    /\ UNCHANGED <<cacheVars, histVars, heapVars, runs, tiles, opts,
                   all_detections, processed, early_stopped, futResult,
                   stats, tileVars, nmsVars,
                   lockVars, batchVars, tempVars, modelVars>>

\* The early-stop loop `for f in future_to_tile: if not f.done(): f.cancel()`,
\* one future per step; cancel() has no effect on a running future.
MainCancel ==
    /\ phase = "par_cancel"
    /\ fut' = IF cursor <= Len(fut) /\ fut[cursor] = "pending"
              THEN [fut EXCEPT ![cursor] = "cancelled"] ELSE fut
    /\ cursor' = cursor + 1
    /\ phase' = IF cursor >= Len(fut) THEN "par_exit" ELSE "par_cancel"
    /\ UNCHANGED <<cacheVars, histVars, heapVars, runs, tiles, opts,
                   all_detections, processed, early_stopped, futResult,
                   stats, tileVars, nmsVars,
                   lockVars, batchVars, tempVars, modelVars>>

\* The executor's __exit__ has waited for the running workers; the
\* statistics are read and the call returns.
ParFinish ==
    /\ phase = "par_exit"
    /\ Running = {} /\ Pending = {}
    /\ stats' = RunStats(CacheState, processed, early_stopped, all_detections)
    /\ phase' = "done"
    /\ UNCHANGED <<cacheVars, histVars, heapVars, runs, tiles, opts,
                   all_detections, processed, early_stopped, cursor, fut,
                   futResult, tileVars, nmsVars,
                   lockVars, batchVars, tempVars, modelVars>>

Next ==
    \/ \E ts \in TileLists, o \in RunOptions : StartRun(ts, o)
    \/ \E outcome \in Outcomes : SeqStep(outcome)
    \/ SeqFinish
    \/ \E k \in 1..MaxTiles : WorkerStart(k)
    \/ \E k \in 1..MaxTiles, outcome \in Outcomes : WorkerPredict(k, outcome)
    \/ \E k \in 1..MaxTiles : MainConsume(k)
    \/ MainCancel
    \/ ParFinish

Spec == Init /\ [][Next]_vars

\* The tile of the run that a returned detection names by its tile_id.
TileNamedBy(p) == tiles[CHOOSE k \in 1..Len(tiles) : tiles[k].id = p.tile_id]

\* C3: a result handed to a caller is independent of the stored entry:
\* whatever the caller does to the returned detections, the cache entry of a
\* fingerprint keeps the tile-local values the Detector returned, so a later
\* get returns them.
C3_CacheEntryKeepsStoredValues ==
    \A i \in 1..Len(cache) : \A j \in 1..Len(cache[i].val) :
        LET p == heap[cache[i].val[j]]
            d == detected[cache[i].val[j]].pred
        IN  \A f \in DOMAIN d : p[f] = d[f]

\* C4: every detection of the list a run returns has the centre
\* (tx + cx, ty + cy): the Detector's tile-local centre for the content of
\* the tile its tile_id names, plus that tile's offset.
C4_RemapExact ==
    phase = "done" =>
        \A i \in 1..Len(all_detections) :
            LET p == heap[all_detections[i]]
                d == detected[all_detections[i]]
                t == TileNamedBy(p)
            IN  /\ t.image = d.content
                /\ p.x = t.x + d.pred.x
                /\ p.y = t.y + d.pred.y

\* C5: every detection of the list a run returns, in sequential and in
\* parallel mode, has the width, height, confidence and class the Detector
\* returned for it.
C5_RemapKeepsSizeConfidenceClass ==
    phase = "done" =>
        \A i \in 1..Len(all_detections) :
            LET p == heap[all_detections[i]]
                d == detected[all_detections[i]].pred
            IN  /\ p.width = d.width
                /\ p.height = d.height
                /\ p.confidence = d.confidence
                /\ p.class = d.class

\* ---- what a step of a run does with one tile

\* The step is an iteration of the sequential loop.
SeqIteration == phase = "seq" /\ processed' = processed + 1

\* The step is the iteration of the parallel loop that takes future k.
ParIteration(k) ==
    /\ phase = "par" /\ processed' = processed + 1
    /\ k <= Len(fut) /\ fut[k] = "finished" /\ fut'[k] = "consumed"

\* The step starts the detect_on_tile call of future k.
ParStart(k) ==
    /\ phase \notin {"idle", "done"}
    /\ k <= Len(fut) /\ fut[k] = "pending"
    /\ fut'[k] \in {"running", "finished"}

\* The detections the step appended to the list.
Appended ==
    SubSeq(all_detections', Len(all_detections) + 1, Len(all_detections'))

\* The prediction dicts the Detector call of the step created.
NewRefs == (DOMAIN detected') \ (DOMAIN detected)

\* The fingerprint of tile k is stored.
Stored(k) == get_tile_hash(tiles[k].image) \in CacheKeys(cache)

StoredValue(k) == CacheValue(cache, get_tile_hash(tiles[k].image))

\* Some entry of the response came from a call that failed.
FromFailedCall(refs) == \E r \in refs : detected'[r].outcome # "ok"

\* What the claim lets a tile contribute, given the response refs (a set):
\* nothing if the call failed, every detection otherwise.
Contributes(refs) ==
    IF FromFailedCall(refs) THEN Appended = <<>>
    ELSE Range(Appended) = refs /\ Len(Appended) = Cardinality(refs)

\* C14: a failure of the Detector call on one tile (an exception or a
\* malformed result) never aborts the run: the detections gathered so far
\* stay in the list, the failing tile contributes zero detections, and
\* without early stop every other tile contributes all its detections.
C14_FailureNeverAborts ==
    [][ /\ phase \in {"idle", "done"}
           \/ /\ Len(all_detections') >= Len(all_detections)
              /\ SubSeq(all_detections', 1, Len(all_detections))
                   = all_detections
        /\ (SeqIteration /\ opts.early_stop_count = 0)
           => Contributes(IF opts.use_cache /\ Stored(cursor)
                          THEN Range(StoredValue(cursor)) ELSE NewRefs)
        /\ \A k \in 1..Len(tiles) :
              (ParIteration(k) /\ opts.early_stop_count = 0)
              => Contributes(Range(futResult[k].refs))
      ]_vars

C16_OnlyValidatedResponsesCached ==
    \A i \in 1..Len(cache) :
        /\ cache[i].val # <<>>
        /\ \A j \in 1..Len(cache[i].val) :
              /\ detected[cache[i].val[j]].outcome = "ok"
              /\ {"x", "y", "width", "height", "confidence", "class"}
                   \subseteq DOMAIN heap[cache[i].val[j]]

\* C21: early stop is off unless the caller supplies a count: a run without
\* early_stop_count, sequential or parallel, returns early_stopped = False
\* and processed = the number of input tiles, also when tiles fail (the
\* Detector or the cache).
C21_NoEarlyStopWithoutCount ==
    (phase = "done" /\ opts.early_stop_count = 0) =>
        /\ ~early_stopped /\ ~stats.early_stopped
        /\ processed = Len(tiles) /\ stats.processed = Len(tiles)

\* C27: the statistics of a run are per run: the cache hits and misses it
\* reports count the lookups of that run only, so with use_cache their sum
\* is the number of tiles the run looked up, and without use_cache both
\* are 0, whatever earlier runs did with the same cache.
C27_StatsArePerRun ==
    phase = "done" =>
        IF opts.use_cache
        THEN stats.cache_hits + stats.cache_misses =
               IF opts.parallel
               THEN Cardinality({k \in 1..Len(fut) :
                                   fut[k] \notin {"pending", "cancelled"}})
               ELSE processed
        ELSE stats.cache_hits = 0 /\ stats.cache_misses = 0

-----------------------------------------------------------------------------
(* SpecTiles: PDFProcessor.create_tiles.                                   *)
(* The page is a white image (255) with at most one black pixel (0); a     *)
(* crop that reaches outside the image is filled with 0, as PIL does.      *)

\* Bounds of the tiler model.
MaxW == 5       \* image widths 1..MaxW
MaxH == 5       \* image heights 1..MaxH
MaxT == 3       \* tile sizes 1..MaxT

\* Grey levels of the modelled pages, and `np_img > 240`
White == 255
NearWhite == 240

\* variance_threshold of is_blank_tile
VarianceThreshold == 100

\* uint8 arithmetic of np.diff
Byte == 256

\* Overlap fractions, as [num, den]; all lie in [0, 1).
Overlaps == {[num |-> 0, den |-> 1], [num |-> 1, den |-> 4], [num |-> 1, den |-> 2]}

\* blank_threshold, in hundredths (the default 0.95)
BlankThresholds == {95}

\* edge_margin (the default is 50 for tiles of 640)
EdgeMargins == {1}

NoMark == <<>>

\* The pages of a given size: all white, or one black pixel.
Marks(w, h) == {NoMark} \cup ((0..(w - 1)) \X (0..(h - 1)))

TilerInputs ==
    UNION { { [W |-> w, H |-> h, T |-> t, overlap |-> ov, skip_blank |-> sb,
               skip_edges |-> se, edge_margin |-> em, blank_threshold |-> bt,
               prioritize_complex |-> pc, mark |-> m] :
                t \in 1..MaxT, ov \in Overlaps,
                sb \in BOOLEAN, se \in BOOLEAN, em \in EdgeMargins,
                bt \in BlankThresholds, pc \in BOOLEAN, m \in Marks(w, h) } :
            w \in 1..MaxW, h \in 1..MaxH }

\* stride = int(tile_size * (1 - overlap)); int() truncates towards zero
Stride(T, ov) ==
    LET n == T * (ov.den - ov.num)
    IN  IF n >= 0 THEN n \div ov.den ELSE 0 - ((0 - n) \div ov.den)

\* list(range(a, stop, step)) for step # 0
RECURSIVE RangeFrom(_, _, _)
RangeFrom(a, stop, step) ==
    IF (step > 0 /\ a >= stop) \/ (step < 0 /\ a <= stop) THEN <<>>
    ELSE <<a>> \o RangeFrom(a + step, stop, step)

PyRange(stop, step) == RangeFrom(0, stop, step)

\* a % b of Python for a >= 0 and b # 0: the result has the sign of b
PyMod(a, b) ==
    IF b > 0 THEN a % b
    ELSE IF a % (0 - b) = 0 THEN 0 ELSE (a % (0 - b)) + b

\* Grey level of the page at (px, py); outside the page a crop holds 0.
Pixel(in, px, py) ==
    IF px < 0 \/ py < 0 \/ px >= in.W \/ py >= in.H THEN 0
    ELSE IF in.mark = <<px, py>> THEN 0
    ELSE White

\* image.crop((x, y, x + tile_size, y + tile_size)) as a function of the
\* tile-local position
Crop(in, x, y) ==
    [l \in (0..(in.T - 1)) \X (0..(in.T - 1)) |-> Pixel(in, x + l[1], y + l[2])]

RECURSIVE SumOver(_, _)
SumOver(S, f) ==
    IF S = {} THEN 0
    ELSE LET e == CHOOSE e \in S : TRUE IN f[e] + SumOver(S \ {e}, f)

\* is_blank_tile: white_ratio > threshold or variance < variance_threshold.
\* With n pixels of sum s and sum of squares q the variance is
\* (n*q - s*s) / (n*n).
is_blank_tile(tile, threshold) ==
    LET n == Cardinality(DOMAIN tile)
        white == Cardinality({l \in DOMAIN tile : tile[l] > NearWhite})
        s == SumOver(DOMAIN tile, tile)
        q == SumOver(DOMAIN tile, [l \in DOMAIN tile |-> tile[l] * tile[l]])
    IN  \/ white * 100 > threshold * n
        \/ n * q - s * s < VarianceThreshold * n * n

\* An edge test that never fires (used to test the filters).
NeverEdge(x, y, tile_size, img_width, img_height, margin) == FALSE

\* is_edge_tile
is_edge_tile(x, y, tile_size, img_width, img_height, margin) ==
    \/ x < margin
    \/ y < margin
    \/ x + tile_size > img_width - margin
    \/ y + tile_size > img_height - margin

\* calculate_tile_complexity, times the number of pixels of the tile (the
\* same for every tile of a call): the sums of np.diff along both axes,
\* computed in uint8.
calculate_tile_complexity(tile, T) ==
    LET dv == [l \in (0..(T - 2)) \X (0..(T - 1)) |->
                 (tile[<<l[1] + 1, l[2]>>] - tile[l]) % Byte]
        dh == [l \in (0..(T - 1)) \X (0..(T - 2)) |->
                 (tile[<<l[1], l[2] + 1>>] - tile[l]) % Byte]
    IN  SumOver(DOMAIN dv, dv) + SumOver(DOMAIN dh, dh)

\* The body shared by the four tile loops, for the positions ps (pairs
\* <<x, y>>) in order, on the locals st = [tiles, stats, tile_id].
\* grid: the main grid loop, which alone counts total_created and the
\* filtered tiles; bump: the loop increments tile_id after appending.
RECURSIVE AddTiles(_, _, _, _, _)
AddTiles(in, ps, st, grid, bump) ==
    IF ps = <<>> THEN st
    ELSE
      LET x  == Head(ps)[1]
          y  == Head(ps)[2]
          s1 == IF grid
                THEN [st.stats EXCEPT !.total_created = @ + 1]
                ELSE st.stats
          tile == Crop(in, x, y)
          nxt ==
            IF in.skip_edges /\ is_edge_tile(x, y, in.T, in.W, in.H, in.edge_margin)
            THEN [st EXCEPT !.stats =
                    IF grid THEN [s1 EXCEPT !.edge_filtered = @ + 1] ELSE s1]
            ELSE IF in.skip_blank /\ is_blank_tile(tile, in.blank_threshold)
            THEN [st EXCEPT !.stats =
                    IF grid THEN [s1 EXCEPT !.blank_filtered = @ + 1] ELSE s1]
            ELSE [tiles |-> Append(st.tiles,
                     [id |-> st.tile_id, x |-> x, y |-> y,
                      width |-> in.T, height |-> in.T,
                      complexity |-> IF in.prioritize_complex
                                     THEN calculate_tile_complexity(tile, in.T)
                                     ELSE 0]),
                  stats |-> [s1 EXCEPT !.kept = @ + 1],
                  tile_id |-> IF bump THEN st.tile_id + 1 ELSE st.tile_id]
      IN  AddTiles(in, Tail(ps), nxt, grid, bump)

\* Positions of the nested loops `for y in ys: for x in xs`
RECURSIVE RowMajor(_, _)
RowMajor(ys, xs) ==
    IF ys = <<>> THEN <<>>
    ELSE [i \in 1..Len(xs) |-> <<xs[i], Head(ys)>>] \o RowMajor(Tail(ys), xs)

\* An insertion that sorts ascending (used to test the prioritization).
RECURSIVE InsertAsc(_, _)
InsertAsc(sorted, t) ==
    IF sorted = <<>> THEN <<t>>
    ELSE IF Head(sorted).complexity <= t.complexity
         THEN <<Head(sorted)>> \o InsertAsc(Tail(sorted), t)
         ELSE <<t>> \o sorted

\* tiles.sort(key=complexity, reverse=True): stable, descending
RECURSIVE InsertDesc(_, _)
InsertDesc(sorted, t) ==
    IF sorted = <<>> THEN <<t>>
    ELSE IF Head(sorted).complexity >= t.complexity
         THEN <<Head(sorted)>> \o InsertDesc(Tail(sorted), t)
         ELSE <<t>> \o sorted

RECURSIVE SortByComplexity(_)
SortByComplexity(ts) ==
    IF ts = <<>> THEN <<>>
    ELSE InsertDesc(SortByComplexity(SubSeq(ts, 1, Len(ts) - 1)), ts[Len(ts)])

\* Lines 204-215: the locals at the start of a call.
NewTilerLocals ==
    [tiles |-> <<>>,
     stats |-> [total_created |-> 0, blank_filtered |-> 0,
                edge_filtered |-> 0, kept |-> 0],
     tile_id |-> 0]

TilerLocals == [tiles |-> tTiles, stats |-> tStats, tile_id |-> tNextId]

InitTiles ==
    /\ tIn \in TilerInputs
    /\ tPhase = "start"
    /\ tTiles = NewTilerLocals.tiles
    /\ tStats = NewTilerLocals.stats
    /\ tNextId = NewTilerLocals.tile_id
    /\ IdleCache /\ IdleHist /\ IdleHeap /\ IdleRun /\ IdleNms /\ IdleLock /\ IdleBatch /\ IdleTemp /\ IdleModel

TilerStep(st, next) ==
    /\ tTiles' = st.tiles
    /\ tStats' = st.stats
    /\ tNextId' = st.tile_id
    /\ tPhase' = next
    /\ UNCHANGED <<tIn, cacheVars, histVars, heapVars, runVars, nmsVars,
                   lockVars, batchVars, tempVars, modelVars>>

\* Lines 218-249: the main grid, on the locals st (stride >= 1).
GridTiles(in, st) ==
    LET stride == Stride(in.T, in.overlap)
    IN  AddTiles(in, RowMajor(PyRange(in.H - in.T + 1, stride),
                              PyRange(in.W - in.T + 1, stride)),
                 st, TRUE, TRUE)

\* Lines 251-272: the right edge column.
RightEdgeTiles(in, st) ==
    LET stride == Stride(in.T, in.overlap)
    IN  IF PyMod(in.W, stride) # 0
        THEN AddTiles(in, RowMajor(PyRange(in.H - in.T + 1, stride),
                                   <<in.W - in.T>>),
                      st, FALSE, TRUE)
        ELSE st

\* Lines 274-295: the bottom edge row.
BottomEdgeTiles(in, st) ==
    LET stride == Stride(in.T, in.overlap)
    IN  IF PyMod(in.H, stride) # 0
        THEN AddTiles(in, RowMajor(<<in.H - in.T>>,
                                   PyRange(in.W - in.T + 1, stride)),
                      st, FALSE, TRUE)
        ELSE st

\* Lines 297-315: the bottom-right corner.
CornerTile(in, st) ==
    LET stride == Stride(in.T, in.overlap)
    IN  IF PyMod(in.W, stride) # 0 /\ PyMod(in.H, stride) # 0
        THEN AddTiles(in, << <<in.W - in.T, in.H - in.T>> >>, st, FALSE, FALSE)
        ELSE st

\* Lines 317-319: the sort by complexity.
SortedTiles(in, st) ==
    [st EXCEPT !.tiles = IF in.prioritize_complex /\ st.tiles # <<>>
                         THEN SortByComplexity(st.tiles) ELSE st.tiles]

\* Lines 218-249: the main grid.  range() raises ValueError for a zero step.
TilesGrid ==
    /\ tPhase = "start"
    /\ IF Stride(tIn.T, tIn.overlap) = 0
       THEN TilerStep(TilerLocals, "error")
       ELSE TilerStep(GridTiles(tIn, TilerLocals), "right")

\* Lines 251-272: the right edge column.
TilesRightEdge ==
    /\ tPhase = "right"
    /\ TilerStep(RightEdgeTiles(tIn, TilerLocals), "bottom")

\* Lines 274-295: the bottom edge row.
TilesBottomEdge ==
    /\ tPhase = "bottom"
    /\ TilerStep(BottomEdgeTiles(tIn, TilerLocals), "corner")

\* Lines 297-315: the bottom-right corner.
TilesCorner ==
    /\ tPhase = "corner"
    /\ TilerStep(CornerTile(tIn, TilerLocals), "sort")

\* Lines 317-321: the sort, and the return.
TilesSortReturn ==
    /\ tPhase = "sort"
    /\ TilerStep(SortedTiles(tIn, TilerLocals), "done")

NextTiles ==
    \/ TilesGrid
    \/ TilesRightEdge
    \/ TilesBottomEdge
    \/ TilesCorner
    \/ TilesSortReturn

SpecTiles == InitTiles /\ [][NextTiles]_vars

\* The tile of the returned list covers the pixel (px, py).
Covers(t, px, py) ==
    /\ t.x <= px /\ px < t.x + t.width
    /\ t.y <= py /\ py < t.y + t.height

\* C6: with both filters disabled the union of the returned tile rectangles
\* covers the whole image [0,W) x [0,H), with no gap.  Stated for the images
\* that hold at least one full tile (W >= T and H >= T).
C6_TilesCoverImage ==
    (/\ tPhase = "done"
     /\ ~tIn.skip_blank /\ ~tIn.skip_edges
     /\ tIn.W >= tIn.T /\ tIn.H >= tIn.T)
    => \A px \in 0..(tIn.W - 1), py \in 0..(tIn.H - 1) :
          \E i \in 1..Len(tTiles) : Covers(tTiles[i], px, py)

\* C7: every returned tile is exactly T x T and lies inside the image:
\* 0 <= x, x + T <= W, 0 <= y and y + T <= H.
C7_TilesInsideImage ==
    tPhase = "done" =>
        \A i \in 1..Len(tTiles) :
            /\ tTiles[i].width = tIn.T /\ tTiles[i].height = tIn.T
            /\ 0 <= tTiles[i].x /\ tTiles[i].x + tIn.T <= tIn.W
            /\ 0 <= tTiles[i].y /\ tTiles[i].y + tIn.T <= tIn.H

\* C22: the flush right-edge column (x = W - T) is added exactly when the
\* last grid column does not end at W, and the flush bottom row and corner
\* exactly when the last grid row does not end at H: with both filters
\* disabled, on an image that holds a full tile, the returned list has a
\* tile flush with the right edge and one flush with the bottom edge, and no
\* tile rectangle twice.
C22_EdgeTilesExactlyWhenNeeded ==
    (/\ tPhase = "done"
     /\ ~tIn.skip_blank /\ ~tIn.skip_edges
     /\ tIn.W >= tIn.T /\ tIn.H >= tIn.T)
    => /\ \E i \in 1..Len(tTiles) : tTiles[i].x = tIn.W - tIn.T
       /\ \E i \in 1..Len(tTiles) : tTiles[i].y = tIn.H - tIn.T
       /\ \A i, j \in 1..Len(tTiles) :
             (tTiles[i].x = tTiles[j].x /\ tTiles[i].y = tTiles[j].y)
             => i = j

\* C23: for an image smaller than the tile in either dimension (W < T or
\* H < T) create_tiles raises no error and returns an empty tile list.
C23_SmallImageYieldsNoTiles ==
    (tIn.W < tIn.T \/ tIn.H < tIn.T)
    => /\ tPhase # "error"
       /\ tPhase = "done" => tTiles = <<>>

\* C25: with prioritization the returned list is sorted by non-increasing
\* complexity score, each tile carrying the score of its own pixels; without
\* prioritization the tiles are returned in creation order.
C25_PrioritizedByComplexity ==
    tPhase = "done" =>
        IF tIn.prioritize_complex
        THEN /\ \A i \in 1..(Len(tTiles) - 1) :
                  tTiles[i].complexity >= tTiles[i + 1].complexity
             /\ \A i \in 1..Len(tTiles) :
                  tTiles[i].complexity =
                    calculate_tile_complexity(
                        Crop(tIn, tTiles[i].x, tTiles[i].y), tIn.T)
        ELSE \A i \in 1..Len(tTiles) : tTiles[i].id = i - 1

\* C25 witness: a prioritized call has returned a list in which a tile
\* created later, of higher score, stands before a tile created earlier.
C25_Witness ==
    /\ tPhase = "done"
    /\ tIn.prioritize_complex
    /\ Len(tTiles) >= 3
    /\ tTiles[1].id > tTiles[2].id
    /\ tTiles[1].complexity > tTiles[2].complexity

\* The tiles the four loops of a call on `in` generate, in creation order,
\* before any filter.
Generated(in) ==
    LET u == [in EXCEPT !.skip_blank = FALSE, !.skip_edges = FALSE]
    IN  CornerTile(u, BottomEdgeTiles(u, RightEdgeTiles(u,
            GridTiles(u, NewTilerLocals)))).tiles

\* Tile t lies within the edge margin of a boundary of the page.
NearBoundary(in, t) ==
    \/ t.x < in.edge_margin
    \/ t.y < in.edge_margin
    \/ in.W - (t.x + in.T) < in.edge_margin
    \/ in.H - (t.y + in.T) < in.edge_margin

\* Tile t passes the filters that are enabled.
PassesFilters(in, t) ==
    /\ in.skip_edges => ~NearBoundary(in, t)
    /\ in.skip_blank => ~is_blank_tile(Crop(in, t.x, t.y), in.blank_threshold)

\* C26: the returned tiles are exactly the generated tiles (grid, edge and
\* corner alike) that pass the enabled filters: none within edge_margin of
\* a boundary with edge filtering, none blank with blank filtering, all of
\* them with both filters off; the edge test comes first, so a grid tile
\* that fails both is counted as edge-filtered.
C26_ReturnedTilesPassFilters ==
    tPhase = "done" =>
        LET gen  == Generated(tIn)
            grid == SubSeq(gen, 1, tStats.total_created)
            kept == {i \in 1..Len(gen) : PassesFilters(tIn, gen[i])}
        IN  /\ Len(tTiles) = Cardinality(kept)
            /\ {<<tTiles[i].x, tTiles[i].y>> : i \in 1..Len(tTiles)}
                 = {<<gen[i].x, gen[i].y>> : i \in kept}
            /\ tStats.edge_filtered =
                 Cardinality({i \in 1..Len(grid) :
                     tIn.skip_edges /\ NearBoundary(tIn, grid[i])})
            /\ tStats.blank_filtered =
                 Cardinality({i \in 1..Len(grid) :
                     /\ ~(tIn.skip_edges /\ NearBoundary(tIn, grid[i]))
                     /\ ~PassesFilters(tIn, grid[i])})

\* C26 witness: a call with both filters on has returned a tile and has
\* dropped a tile for the edge margin and another, away from the
\* boundaries, for being blank.
C26_Witness ==
    /\ tPhase = "done"
    /\ tIn.skip_edges /\ tIn.skip_blank
    /\ Len(tTiles) >= 1
    /\ tStats.edge_filtered >= 1
    /\ tStats.blank_filtered >= 1

\* C39: the counts create_tiles returns are consistent: kept is the length
\* of the returned tile list, and every tile created, in the grid, the edge
\* column, the edge row or the corner, is counted once in total_created and
\* once in kept, blank_filtered or edge_filtered.
C39_TileCountsConsistent ==
    tPhase = "done" =>
        /\ tStats.kept = Len(tTiles)
        /\ tStats.total_created =
             tStats.kept + tStats.blank_filtered + tStats.edge_filtered

-----------------------------------------------------------------------------
(* SpecConfig: create_tiles called with any overlap argument, also outside *)
(* [0, 1); white pages, filters off.                                       *)

\* Overlap arguments outside [0, 1): -0.5, 1 and 1.5.
BadOverlaps == {[num |-> -1, den |-> 2], [num |-> 1, den |-> 1],
                [num |-> 3, den |-> 2]}

ConfigInputs ==
    { [W |-> w, H |-> h, T |-> t, overlap |-> ov, skip_blank |-> FALSE,
       skip_edges |-> FALSE, edge_margin |-> em, blank_threshold |-> bt,
       prioritize_complex |-> pc, mark |-> NoMark] :
        w \in 1..MaxW, h \in 1..MaxH, t \in 1..MaxT,
        ov \in Overlaps \cup BadOverlaps, em \in EdgeMargins,
        bt \in BlankThresholds, pc \in BOOLEAN }

InitConfig ==
    /\ tIn \in ConfigInputs
    /\ tPhase = "start"
    /\ tTiles = NewTilerLocals.tiles
    /\ tStats = NewTilerLocals.stats
    /\ tNextId = NewTilerLocals.tile_id
    /\ IdleCache /\ IdleHist /\ IdleHeap /\ IdleRun /\ IdleNms /\ IdleLock /\ IdleBatch /\ IdleTemp /\ IdleModel

SpecConfig == InitConfig /\ [][NextTiles]_vars

\* The overlap argument lies in [0, 1).
ValidOverlap(ov) == 0 <= ov.num /\ ov.num < ov.den

\* C24: configuration errors fail fast: the stride create_tiles works with
\* is an integer >= 1, and a call with an overlap outside [0, 1) or with a
\* stride <= 0 fails with an error before any tile is produced.
C24_ConfigErrorsFailFast ==
    /\ tPhase \notin {"start", "error"} => Stride(tIn.T, tIn.overlap) >= 1
    /\ (~ValidOverlap(tIn.overlap) \/ Stride(tIn.T, tIn.overlap) <= 0)
       => tPhase \in {"start", "error"}

-----------------------------------------------------------------------------
(* SpecNms: the Overlap Resolver, remove_overlapping_detections, as the     *)
(* design document describes it (section 4.4): greedy, class-aware          *)
(* non-max suppression over the detections sorted by descending confidence. *)

\* Bound: length of the detection list handed to the resolver.
MaxDets == 3

\* Page-global detections of the modelled pages: boxes of 4 x 4 whose centres
\* are 0, 1 or 2 apart (IoU 1, 3/5 and 1/3), two classes, two confidences.
NmsDetections ==
    [x : {10, 11, 12}, y : {10}, width : {4}, height : {4},
     confidence : {5, 9}, class : {"smoke", "pull"}]

\* The configured IoU threshold, as [num, den].
IouThresholds == {[num |-> 1, den |-> 2], [num |-> 3, den |-> 10]}

\* Overlap of two intervals given by centre and length, in half units.
Overlap2(c1, l1, c2, l2) ==
    Max(0, Min(2 * c1 + l1, 2 * c2 + l2) - Max(2 * c1 - l1, 2 * c2 - l2))

\* Areas in quarter units: intersection and union of two centre-format boxes.
Intersection4(a, b) ==
    Overlap2(a.x, a.width, b.x, b.width) * Overlap2(a.y, a.height, b.y, b.height)

Union4(a, b) ==
    4 * a.width * a.height + 4 * b.width * b.height - Intersection4(a, b)

\* IoU(a, b) > thr
IouAbove(a, b, thr) == Intersection4(a, b) * thr.den > thr.num * Union4(a, b)

\* Comparison that ignores the class (used to test the class-awareness).
AnyClass(a, b) == TRUE

\* "only detections of the same class are compared"
SameClass(a, b) == a.class = b.class

\* a retained detection k suppresses the later detection d
Suppresses(k, d, thr) == SameClass(k, d) /\ IouAbove(k, d, thr)

\* An ascending sort (used to test the confidence order).
RECURSIVE InsertByConfidenceAsc(_, _)
InsertByConfidenceAsc(sorted, d) ==
    IF sorted = <<>> THEN <<d>>
    ELSE IF Head(sorted).confidence <= d.confidence
         THEN <<Head(sorted)>> \o InsertByConfidenceAsc(Tail(sorted), d)
         ELSE <<d>> \o sorted

\* An insertion that puts d before the detections of equal confidence (used
\* to test the stability of the sort).
RECURSIVE InsertByConfidenceFirst(_, _)
InsertByConfidenceFirst(sorted, d) ==
    IF sorted = <<>> THEN <<d>>
    ELSE IF Head(sorted).confidence > d.confidence
         THEN <<Head(sorted)>> \o InsertByConfidenceFirst(Tail(sorted), d)
         ELSE <<d>> \o sorted

\* Stable insertion into a list sorted by descending confidence: d goes
\* after every detection of equal confidence.
RECURSIVE InsertByConfidence(_, _)
InsertByConfidence(sorted, d) ==
    IF sorted = <<>> THEN <<d>>
    ELSE IF Head(sorted).confidence >= d.confidence
         THEN <<Head(sorted)>> \o InsertByConfidence(Tail(sorted), d)
         ELSE <<d>> \o sorted

\* "sort detections by descending confidence" (stable)
RECURSIVE SortByConfidence(_)
SortByConfidence(ds) ==
    IF ds = <<>> THEN <<>>
    ELSE InsertByConfidence(SortByConfidence(SubSeq(ds, 1, Len(ds) - 1)),
                            ds[Len(ds)])

\* A resolver that folds a duplicate into its winner (used to test that the
\* resolver only selects): the first suppressor takes the larger centre.
MergeInto(kept, d, thr) ==
    LET i == CHOOSE i \in 1..Len(kept) :
                /\ Suppresses(kept[i], d, thr)
                /\ \A j \in 1..(i - 1) : ~Suppresses(kept[j], d, thr)
    IN  [kept EXCEPT ![i].x = Max(kept[i].x, d.x)]

\* The retained list after a detection d was found to be a duplicate of a
\* retained one: d is dropped, nothing is merged.
DropDuplicate(kept, d, thr) == kept

\* The greedy pass over the sorted list: a detection is retained unless a
\* detection retained before it suppresses it.
RECURSIVE Greedy(_, _, _)
Greedy(sorted, kept, thr) ==
    IF sorted = <<>> THEN kept
    ELSE LET d == Head(sorted)
         IN  IF \E i \in 1..Len(kept) : Suppresses(kept[i], d, thr)
             THEN Greedy(Tail(sorted), DropDuplicate(kept, d, thr), thr)
             ELSE Greedy(Tail(sorted), Append(kept, d), thr)

\* removeOverlaps
remove_overlapping_detections(ds, thr) == Greedy(SortByConfidence(ds), <<>>, thr)

InitNms ==
    /\ nIn \in [dets : SeqsUpTo(NmsDetections, MaxDets), thr : IouThresholds]
    /\ nOut = <<>>
    /\ nOut2 = <<>>
    /\ nPhase = "start"
    /\ IdleCache /\ IdleHist /\ IdleHeap /\ IdleRun /\ IdleTiler /\ IdleLock /\ IdleBatch /\ IdleTemp /\ IdleModel

\* analysis.py, lines 238 and 335: the resolver is applied to the page's
\* aggregated detections.
Resolve ==
    /\ nPhase = "start"
    /\ nOut' = remove_overlapping_detections(nIn.dets, nIn.thr)
    /\ nPhase' = "once"
    /\ UNCHANGED <<nIn, nOut2, cacheVars, histVars, heapVars, runVars, tileVars,
                   lockVars, batchVars, tempVars, modelVars>>

\* The resolver is applied to its own output.
ResolveAgain ==
    /\ nPhase = "once"
    /\ nOut2' = remove_overlapping_detections(nOut, nIn.thr)
    /\ nPhase' = "twice"
    /\ UNCHANGED <<nIn, nOut, cacheVars, histVars, heapVars, runVars, tileVars,
                   lockVars, batchVars, tempVars, modelVars>>

NextNms == Resolve \/ ResolveAgain

SpecNms == InitNms /\ [][NextNms]_vars

Count(s, e) == Cardinality({i \in 1..Len(s) : s[i] = e})

SameBox(a, b) ==
    a.x = b.x /\ a.y = b.y /\ a.width = b.width /\ a.height = b.height

\* C8: the resolver only selects: every output detection is an input
\* detection with all its fields unchanged, and none occurs in the output
\* more often than in the input (so none is a merge of several inputs).
C8_OutputIsSelectionOfInput ==
    nPhase # "start" =>
        \A i \in 1..Len(nOut) : Count(nOut, nOut[i]) <= Count(nIn.dets, nOut[i])

\* C8 witness: the resolver retained several detections and suppressed one.
C8_Witness ==
    /\ nPhase = "once"
    /\ Len(nOut) >= 2
    /\ Len(nOut) < Len(nIn.dets)

\* C9: the resolver is idempotent (a second application returns the output
\* of the first), and of two same-class detections whose boxes coincide
\* only the one with the higher confidence is in the output.
C9_IdempotentAndHigherConfidenceWins ==
    /\ nPhase = "twice" => nOut2 = nOut
    /\ nPhase # "start" =>
         \A i, j \in 1..Len(nIn.dets) :
            LET a == nIn.dets[i]
                b == nIn.dets[j]
            IN  (/\ a.class = b.class /\ SameBox(a, b)
                 /\ a.confidence > b.confidence)
                => /\ Count(nOut, b) = 0
                   /\ Len(nIn.dets) = 2 => nOut = <<a>>

\* C9 witness: the resolver ran twice on a list that holds two same-class
\* detections with coinciding boxes and different confidences, and another
\* detection that it retains.
C9_Witness ==
    /\ nPhase = "twice"
    /\ Len(nOut) >= 2
    /\ \E i, j \in 1..Len(nIn.dets) :
          /\ nIn.dets[i].class = nIn.dets[j].class
          /\ SameBox(nIn.dets[i], nIn.dets[j])
          /\ nIn.dets[i].confidence > nIn.dets[j].confidence

\* C10: the resolver is class-aware: a detection that is suppressed has a
\* retained detection of its class, not below it in confidence, whose IoU
\* with it is above the threshold; a detection that no other detection of
\* its class overlaps above the threshold is retained, whatever overlaps it
\* in other classes.
C10_ClassAwareSuppression ==
    nPhase # "start" =>
        \A j \in 1..Len(nIn.dets) :
            LET d == nIn.dets[j]
            IN  /\ Count(nOut, d) < Count(nIn.dets, d)
                   => \E i \in 1..Len(nOut) :
                         /\ nOut[i].class = d.class
                         /\ nOut[i].confidence >= d.confidence
                         /\ IouAbove(nOut[i], d, nIn.thr)
                /\ (\A i \in 1..Len(nIn.dets) \ {j} :
                        \/ nIn.dets[i].class # d.class
                        \/ ~IouAbove(nIn.dets[i], d, nIn.thr))
                   => Count(nOut, d) = 1

\* C10 witness: two detections of different classes with coinciding boxes
\* are both retained, while a detection was suppressed.
C10_Witness ==
    /\ nPhase = "once"
    /\ Len(nOut) < Len(nIn.dets)
    /\ \E i, j \in 1..Len(nOut) :
          nOut[i].class # nOut[j].class /\ SameBox(nOut[i], nOut[j])

\* The detection at index i of the input comes before the one at index j in
\* the stable confidence-descending order.
SortsBefore(ds, i, j) ==
    \/ ds[i].confidence > ds[j].confidence
    \/ ds[i].confidence = ds[j].confidence /\ i < j

\* C11: the output is ordered by non-increasing confidence, and among
\* overlapping same-class detections of equal confidence the one that came
\* first in the input is the one retained: if nothing that sorts before it
\* overlaps it, the earlier one is in the output and the later one is not,
\* and the retained detections of equal confidence keep their input order.
C11_ConfidenceOrderStableTies ==
    nPhase # "start" =>
        /\ \A i, j \in 1..Len(nOut) :
              i < j => nOut[i].confidence >= nOut[j].confidence
        /\ \A i, j \in 1..Len(nIn.dets) :
              LET a == nIn.dets[i]
                  b == nIn.dets[j]
              IN  (/\ i < j
                   /\ a # b
                   /\ a.class = b.class
                   /\ a.confidence = b.confidence
                   /\ IouAbove(a, b, nIn.thr)
                   /\ \A k \in 1..Len(nIn.dets) :
                         (k # i /\ SortsBefore(nIn.dets, k, i))
                         => ~Suppresses(nIn.dets[k], a, nIn.thr))
                  => /\ Count(nOut, a) >= 1
                     /\ Count(nOut, b) < Count(nIn.dets, b)
        /\ \A i, j \in 1..Len(nOut) :
              (/\ i < j /\ nOut[i] # nOut[j]
               /\ nOut[i].confidence = nOut[j].confidence
               /\ Count(nIn.dets, nOut[i]) = 1 /\ Count(nIn.dets, nOut[j]) = 1)
              => \E k, l \in 1..Len(nIn.dets) :
                    k < l /\ nIn.dets[k] = nOut[i] /\ nIn.dets[l] = nOut[j]

\* C11 witness: of two overlapping same-class detections of equal
\* confidence the input lists the one with the larger centre first, and the
\* output holds it, after a detection of higher confidence.
C11_Witness ==
    /\ nPhase = "once"
    /\ Len(nIn.dets) = 3
    /\ Len(nOut) = 2
    /\ nOut[1].confidence > nOut[2].confidence
    /\ \E i, j \in 1..Len(nIn.dets) :
          /\ i < j
          /\ nIn.dets[i].x > nIn.dets[j].x
          /\ nIn.dets[i].class = nIn.dets[j].class
          /\ nIn.dets[i].confidence = nIn.dets[j].confidence
          /\ IouAbove(nIn.dets[i], nIn.dets[j], nIn.thr)
          /\ nOut[2] = nIn.dets[i]

-----------------------------------------------------------------------------
(* SpecPage: one page through the pipeline, as _run_local_detection_analysis *)
(* runs it: create_tiles, process_all_tiles_parallel or _sequential, then    *)
(* remove_overlapping_detections.  The page is white with at most one mark;  *)
(* the Detector returns one detection, centred on the mark, for every tile   *)
(* that holds it.                                                            *)

\* Bounds of the page model: the tile size standing for config.TILE_SIZE and
\* the largest page.
PageT == 4
PageW == 5
PageH == 5

\* The pages, tiled with config.OVERLAP_PERCENT (0.25) and prioritisation as
\* the route does; every page holds at least one full tile.
PageInputs ==
    UNION { { [W |-> w, H |-> h, T |-> PageT, overlap |-> [num |-> 1, den |-> 4],
               skip_blank |-> sb, skip_edges |-> FALSE, edge_margin |-> em,
               blank_threshold |-> bt, prioritize_complex |-> TRUE,
               mark |-> m] :
                sb \in BOOLEAN, em \in EdgeMargins, bt \in BlankThresholds,
                m \in Marks(w, h) } :
            w \in PageT..PageW, h \in PageT..PageH }

\* The options the route passes: no early stop, config.MAX_WORKERS.
PageOptions ==
    [parallel : BOOLEAN, use_cache : BOOLEAN, early_stop_count : {0},
     max_workers : {MaxWorkers}]

\* The pixel content of the tile cut at (x, y): tiles that hold the mark at
\* the same tile-local position have the same bytes, tiles without the mark
\* are all white (content 3).
PageContent(in, x, y) ==
    IF /\ in.mark # NoMark
       /\ x <= in.mark[1] /\ in.mark[1] < x + in.T
       /\ y <= in.mark[2] /\ in.mark[2] < y + in.T
    THEN MarkBase * (in.mark[1] - x + 1) + (in.mark[2] - y)
    ELSE 3

\* The tile dicts handed to the orchestrator (offsets in sub-pixel units).
PageTiles(in, ts) ==
    [k \in 1..Len(ts) |->
        [id |-> ts[k].id, image |-> PageContent(in, ts[k].x, ts[k].y),
         x |-> Px(ts[k].x), y |-> Px(ts[k].y)]]

InitPage ==
    /\ tIn \in PageInputs
    /\ tPhase = "start"
    /\ tTiles = NewTilerLocals.tiles
    /\ tStats = NewTilerLocals.stats
    /\ tNextId = NewTilerLocals.tile_id
    /\ IdleCache /\ IdleHist /\ IdleHeap /\ IdleRun /\ IdleNms /\ IdleLock /\ IdleBatch /\ IdleTemp /\ IdleModel

\* analysis.py, lines 310-330: a page without tiles is skipped; otherwise
\* the detection run is started on the tiles.
RunPage(o) ==
    /\ tPhase = "done"
    /\ phase = "idle"
    /\ tTiles # <<>>
    /\ StartRun(PageTiles(tIn, tTiles), o)

\* analysis.py, line 335: the resolver is applied to the run's detections.
ResolvePage(thr) ==
    /\ phase = "done"
    /\ nPhase = "idle"
    /\ nIn' = [dets |-> [i \in 1..Len(all_detections) |-> heap[all_detections[i]]],
               thr |-> thr]
    /\ nOut' = remove_overlapping_detections(
                  [i \in 1..Len(all_detections) |-> heap[all_detections[i]]], thr)
    /\ nPhase' = "once"
    /\ UNCHANGED <<nOut2, cacheVars, histVars, heapVars, runVars, tileVars,
                   lockVars, batchVars, tempVars, modelVars>>

NextPage ==
    \/ NextTiles
    \/ \E o \in PageOptions : RunPage(o)
    \/ SeqStep("ok")
    \/ SeqFinish
    \/ \E k \in 1..Len(tiles) : WorkerStart(k)
    \/ \E k \in 1..Len(tiles) : WorkerPredict(k, "ok")
    \/ \E k \in 1..Len(tiles) : MainConsume(k)
    \/ ParFinish
    \/ \E thr \in IouThresholds : ResolvePage(thr)

SpecPage == InitPage /\ [][NextPage]_vars

\* The tiles of the run that hold the page's mark.
TilesWithMark ==
    {k \in 1..Len(tTiles) : Covers(tTiles[k], tIn.mark[1], tIn.mark[2])}

\* C12: for a page with one mark that lies in several overlapping tiles,
\* the list the resolver returns has exactly one detection and its centre
\* is the mark's page coordinates, in sequential and in parallel mode.
C12_OneDetectionAtTheMark ==
    (/\ nPhase = "once"
     /\ tIn.mark # NoMark
     /\ Cardinality(TilesWithMark) >= 2)
    => /\ Len(nOut) = 1
       /\ nOut[1].x = Px(tIn.mark[1])
       /\ nOut[1].y = Px(tIn.mark[2])

-----------------------------------------------------------------------------
(* SpecEarlyStop: the early-stop scenario.  Parallel runs with              *)
(* early_stop_count = 1 on more tiles than the pool has workers; every tile *)
(* holds one symbol and every Detector call returns it.                     *)

\* Bound: tiles of a run of the scenario.
MaxStopTiles == 3

StopTileLists ==
    { [k \in 1..n |-> TileOf(k, cs[k])] :
        n \in 2..MaxStopTiles, cs \in [1..MaxStopTiles -> {1, 2}] }

StopOptions ==
    [parallel : {TRUE}, use_cache : BOOLEAN, early_stop_count : {1},
     max_workers : 1..MaxWorkers]

\* The scenario is one run on a new detector.
StartStopRun(ts, o) ==
    /\ phase = "idle"
    /\ Len(ts) > o.max_workers
    /\ StartRun(ts, o)

NextEarlyStop ==
    \/ \E ts \in StopTileLists, o \in StopOptions : StartStopRun(ts, o)
    \/ \E k \in 1..MaxStopTiles : WorkerStart(k)
    \/ \E k \in 1..MaxStopTiles : WorkerPredict(k, "ok")
    \/ \E k \in 1..MaxStopTiles : MainConsume(k)
    \/ MainCancel
    \/ ParFinish

SpecEarlyStop == Init /\ [][NextEarlyStop]_vars

\* C13: in the early-stop scenario every run that returns has
\* early_stopped = true, objects_found >= 1 and processed strictly smaller
\* than the number of tiles, whatever the interleaving of the workers.
C13_EarlyStopScenario ==
    phase = "done" =>
        /\ early_stopped
        /\ stats.early_stopped
        /\ stats.objects_found >= 1
        /\ stats.processed < Len(tiles)

\* C13 witness: a run of the scenario has returned after a worker completed
\* a second tile that the main thread did not take, and a tile was
\* cancelled before it started.
C13_Witness ==
    /\ phase = "done"
    /\ Len(tiles) > opts.max_workers
    /\ \E j, k \in 1..Len(fut) : fut[j] = "finished" /\ fut[k] = "cancelled"
    /\ stats.processed = 1

\* The stop decision of the run has been taken (line 265).
StopDecided == phase \in {"par_cancel", "par_exit"} /\ early_stopped

\* Future k is not interrupted: a running call stays running or finishes.
NotInterrupted(k) == fut[k] = "running" => fut'[k] \in {"running", "finished"}

\* C20 as stated: once the detection count has reached early_stop_count no
\* Detector call is started for a tile that had not started yet, and a call
\* that is executing is not interrupted and runs to completion.
C20_NoCallStartsAfterStop ==
    [][ /\ StopDecided
           => \A k \in 1..Len(fut) :
                 /\ fut[k] = "pending" => fut'[k] \in {"pending", "cancelled"}
                 /\ NotInterrupted(k)
        /\ (phase = "par_exit" /\ phase' = "done")
           => \A k \in 1..Len(fut) : fut[k] \notin {"pending", "running"}
      ]_vars

\* C20 amended: once the count is reached the main thread takes no further
\* result and cancels every future that is still pending when its cancel
\* loop reaches it; a cancelled tile never starts a Detector call and no
\* tile is pending once the loop is over; a tile a pool thread picks up
\* before the loop reaches it may still start, and every executing call is
\* left to run to completion before the run returns.
C20_CancelsWhatIsStillPending ==
    [][ /\ StopDecided
           => /\ all_detections' = all_detections
              /\ processed' = processed
              /\ \A k \in 1..Len(fut) :
                    /\ fut[k] = "cancelled" => fut'[k] = "cancelled"
                    /\ NotInterrupted(k)
                    /\ (fut[k] = "pending" /\ fut'[k] = "cancelled")
                       => phase = "par_cancel" /\ cursor = k
                    /\ (phase = "par_cancel" /\ cursor' > k)
                       => fut'[k] # "pending"
        /\ (StopDecided /\ phase = "par_exit")
           => \A k \in 1..Len(fut) : fut[k] # "pending"
        /\ (phase = "par_exit" /\ phase' = "done")
           => \A k \in 1..Len(fut) : fut[k] \notin {"pending", "running"}
      ]_vars

\* C20 witness: after the stop decision the cancel loop has cancelled a
\* tile that had not started, while the Detector call of another tile is
\* still executing.
C20_Witness ==
    /\ StopDecided
    /\ \E k \in 1..Len(fut) : fut[k] = "running"
    /\ \E k \in 1..Len(fut) : fut[k] = "cancelled"

\* The page-global detections a sequential run returns for the tiles ts
\* when every Detector call answers.
RECURSIVE SequentialResult(_)
SequentialResult(ts) ==
    IF ts = <<>> THEN <<>>
    ELSE LET out == DetectorOut(Head(ts).image)
         IN  [j \in 1..Len(out) |-> RemapPredSequential(out[j], Head(ts))]
               \o SequentialResult(Tail(ts))

\* The multiset of the elements of a sequence.
BagOf(s) ==
    [e \in {s[i] : i \in 1..Len(s)} |-> Cardinality({i \in 1..Len(s) : s[i] = e})]

\* C30: without early stop a parallel run and a sequential run over the
\* same tiles return the same multiset of page-global detections, whatever
\* the completion order.  Stated for the first run of a detector without
\* cache in which every Detector call answers: in both modes the result is
\* the multiset of the sequential remapping of the Detector's predictions.
C30_ParallelEqualsSequential ==
    (/\ phase = "done" /\ runs = 1 /\ ~opts.use_cache
     /\ opts.early_stop_count = 0 /\ detLog.failed = 0)
    => BagOf([i \in 1..Len(all_detections) |-> heap[all_detections[i]]])
         = BagOf(SequentialResult(tiles))

C32_EarlyStopFlagExact ==
    (phase = "done" /\ opts.early_stop_count >= 1) =>
        (stats.early_stopped <=> stats.objects_found >= opts.early_stop_count)

\* C33: when a parallel run has returned, with or without early stop,
\* every submitted tile has finished or was cancelled before it started, so
\* no worker of the run can touch the cache any more, and the cache counts
\* of its statistics are the counters after its last cache access.
C33_NoWorkerOutlivesRun ==
    (phase = "done" /\ opts.parallel) =>
        /\ \A k \in 1..Len(fut) : fut[k] \in {"finished", "consumed", "cancelled"}
        /\ stats.cache_hits = hits
        /\ stats.cache_misses = misses

\* An early-stopped run with cache has returned: a tile ran to completion
\* without being consumed, and the cache was accessed at least twice.
C33_Witness ==
    /\ phase = "done" /\ opts.parallel /\ opts.use_cache /\ early_stopped
    /\ \E k \in 1..Len(fut) : fut[k] = "finished"
    /\ hits + misses >= 2

-----------------------------------------------------------------------------
(* SpecFault: one run on a new detector whose cache can fail: the          *)
(* fingerprint of a tile cannot be computed (get_tile_hash raises, line    *)
(* 157, outside the try block of detect_on_tile) or the store of a result  *)
(* fails (cache.set raises, line 180, inside it).                          *)

\* Sequential loop: get_tile_hash raises, detect_on_tile raises, the
\* `except` of the loop takes it; `processed += 1` is not reached.
SeqHashFails ==
    /\ phase = "seq"
    /\ cursor <= Len(tiles)
    /\ ~early_stopped
    /\ opts.use_cache
    /\ cursor' = cursor + 1
    /\ UNCHANGED <<cacheVars, heapVars, phase, runs, tiles, opts,
                   all_detections, processed, early_stopped, fut, futResult,
                   stats, histVars, tileVars, nmsVars, lockVars, batchVars, tempVars, modelVars>>

\* Sequential loop: the lookup misses, the Detector answers, cache.set
\* raises; detect_on_tile logs the error and returns None.
SeqSetFails ==
    /\ phase = "seq"
    /\ cursor <= Len(tiles)
    /\ ~early_stopped
    /\ opts.use_cache
    /\ get_tile_hash(tiles[cursor].image) \notin CacheKeys(cache)
    /\ misses' = misses + 1
    /\ detLog' = [detLog EXCEPT !.calls = detLog.calls + 1]
    /\ early_stopped' = EarlyStopReached(all_detections, opts.early_stop_count)
    /\ processed' = processed + 1
    /\ cursor' = cursor + 1
    /\ UNCHANGED <<cache, hits, heap, detected, phase, runs, tiles, opts,
                   all_detections, fut, futResult, stats, histVars, tileVars,
                   nmsVars, lockVars, batchVars, tempVars, modelVars>>

\* Pool thread: get_tile_hash raises; the future holds the exception.
WorkerHashFails(k) ==
    /\ phase \in {"par", "par_cancel", "par_exit"}
    /\ k \in Pending
    /\ \A j \in Pending : k <= j
    /\ Cardinality(Running) < opts.max_workers
    /\ opts.use_cache
    /\ fut' = [fut EXCEPT ![k] = "finished"]
    /\ futResult' = [futResult EXCEPT ![k] = Raised]
    /\ UNCHANGED <<cacheVars, heapVars, histVars, phase, runs, tiles, opts,
                   all_detections, processed, early_stopped, cursor, stats,
                   tileVars, nmsVars, lockVars, batchVars, tempVars, modelVars>>

\* Pool thread: the Detector answers, cache.set raises; the call returns
\* None.
WorkerSetFails(k) ==
    /\ phase \in {"par", "par_cancel", "par_exit"}
    /\ k \in Running
    /\ opts.use_cache
    /\ detLog' = [detLog EXCEPT !.calls = detLog.calls + 1]
    /\ fut' = [fut EXCEPT ![k] = "finished"]
    /\ futResult' = [futResult EXCEPT ![k] = NoResult]
    /\ UNCHANGED <<cacheVars, heap, detected, histVars, phase, runs, tiles,
                   opts, all_detections, processed, early_stopped, cursor,
                   stats, tileVars, nmsVars, lockVars, batchVars, tempVars, modelVars>>

StartFaultRun(ts, o) ==
    /\ phase = "idle"
    /\ StartRun(ts, o)

NextFault ==
    \/ \E ts \in TileLists, o \in RunOptions : StartFaultRun(ts, o)
    \/ \E outcome \in Outcomes : SeqStep(outcome)
    \/ SeqHashFails
    \/ SeqSetFails
    \/ SeqFinish
    \/ \E k \in 1..MaxTiles : WorkerStart(k)
    \/ \E k \in 1..MaxTiles : WorkerHashFails(k)
    \/ \E k \in 1..MaxTiles, outcome \in Outcomes : WorkerPredict(k, outcome)
    \/ \E k \in 1..MaxTiles : WorkerSetFails(k)
    \/ \E k \in 1..MaxTiles : MainConsume(k)
    \/ MainCancel
    \/ ParFinish

SpecFault == Init /\ [][NextFault]_vars

\* Number of detections the Detector returns for the tiles ts.
RECURSIVE ExpectedCount(_)
ExpectedCount(ts) ==
    IF ts = <<>> THEN 0
    ELSE Len(DetectorOut(Head(ts).image)) + ExpectedCount(Tail(ts))

\* C28: a cache failure (fingerprinting, get or set fails) with use_cache
\* on neither fails the run nor turns the tile into zero detections: the
\* Detector is still called for the tile and its detections are returned.
\* Stated for the runs without early stop in which no Detector call fails:
\* they return every detection the Detector has for their tiles.
C28_CacheFailureFallsBackToDetector ==
    (phase = "done" /\ opts.early_stop_count = 0 /\ detLog.failed = 0)
    => Len(all_detections) = ExpectedCount(tiles)

-----------------------------------------------------------------------------
(* SpecSeq: one sequential run on a new detector, on lists long enough    *)
(* for a tile content to come back after another tile.                    *)

MaxSeqTiles == 3     \* tiles of the run

SeqTileLists ==
    { [k \in 1..n |-> TileOf(k, cs[k])] :
        n \in 1..MaxSeqTiles, cs \in [1..MaxSeqTiles -> Contents] }

SeqOptions ==
    [parallel : {FALSE}, use_cache : BOOLEAN, early_stop_count : {0, 1},
     max_workers : {MaxWorkers}]

StartSeqRun(ts, o) ==
    /\ phase = "idle"
    /\ StartRun(ts, o)

NextSeq ==
    \/ \E ts \in SeqTileLists, o \in SeqOptions : StartSeqRun(ts, o)
    \/ \E outcome \in Outcomes : SeqStep(outcome)
    \/ SeqFinish

SpecSeq == Init /\ [][NextSeq]_vars

\* Position in the input list of the tile a detection is attributed to.
TileIndex(p) == CHOOSE k \in 1..Len(tiles) : tiles[k].id = p.tile_id

\* C19: in sequential mode the tiles are processed one at a time in input
\* order and the returned list keeps that order: all detections of a tile
\* come before all detections of any tile that follows it in the input.
C19_SequentialKeepsTileOrder ==
    (phase = "done" /\ ~opts.parallel) =>
        \A i, j \in 1..Len(all_detections) :
            i < j => TileIndex(heap[all_detections[i]])
                       <= TileIndex(heap[all_detections[j]])

-----------------------------------------------------------------------------
(* SpecBatch: _run_local_detection_analysis over the pages of one PDF.    *)
(* A page is described by what the pipeline makes of it: it cannot be     *)
(* rendered, it renders but create_tiles returns no tile, it has tiles    *)
(* and no device, or it has tiles and one device.                         *)

MaxPages == 2

PageKinds == {"norender", "notiles", "nodevice", "smoke", "duct"}

\* The device types left on page p after detection and overlap removal.
DevicesOn(in, p) ==
    CASE in.kind[p] = "smoke" -> <<"smoke detector">>
      [] in.kind[p] = "duct"  -> <<"duct detector">>
      [] OTHER                -> <<>>

classify_page_type(devices) ==
    IF devices = <<>> THEN "other"
    ELSE IF \E i \in 1..Len(devices) : devices[i] = "duct detector"
         THEN "mechanical"
         ELSE IF Len(devices) > 5 THEN "special_systems" ELSE "power_plan"

\* The images of the pages to process, each named by the page it shows
\* (1-based).  Pages outside the document are dropped from the selection,
\* pages that fail to render are skipped.
pdf_to_images(in) ==
    LET pages_to_process ==
            IF in.selected_pages # <<>>
            THEN SelectSeq(in.selected_pages,
                           LAMBDA p : 1 <= p /\ p <= in.total_pages)
            ELSE [i \in 1..in.total_pages |-> i]
    IN  SelectSeq(pages_to_process, LAMBDA p : in.kind[p] # "norender")

\* Selections: none (<<>>), or distinct page numbers in any order.
BatchInputs ==
    [total_pages : 1..MaxPages,
     kind : [1..MaxPages -> PageKinds],
     selected_pages : {<<>>} \cup
         {s \in UNION {[1..n -> 1..MaxPages] : n \in 1..MaxPages} :
              \A i, j \in 1..Len(s) : i # j => s[i] # s[j]}]

InitBatch ==
    /\ IdleBatch /\ IdleTemp /\ IdleModel
    /\ IdleCache /\ IdleHist /\ IdleHeap /\ IdleRun /\ IdleTiler /\ IdleNms
    /\ IdleLock

StartAnalysis(in) ==
    /\ aPhase = "idle"
    /\ aIn' = in
    /\ images' = pdf_to_images(in)
    /\ page_analyses' = <<>>
    /\ IF images' = <<>>
       THEN /\ aPhase' = "done"
            /\ aCursor' = 0
            /\ aResult' = [success |-> FALSE, error |-> "Failed to convert PDF"]
       ELSE /\ aPhase' = "analyse"
            /\ aCursor' = 1
            /\ aResult' = <<>>
    /\ UNCHANGED <<cacheVars, histVars, heapVars, runVars, tileVars, nmsVars,
                   lockVars, tempVars, modelVars>>

\* One iteration of `for i, image in enumerate(images)`.
AnalysePage ==
    /\ aPhase = "analyse"
    /\ aCursor <= Len(images)
    /\ LET page_num == IF aIn.selected_pages # <<>>
                       THEN aIn.selected_pages[aCursor]
                       ELSE aCursor
           devices  == IF aIn.kind[images[aCursor]] = "notiles"
                       THEN <<>>
                       ELSE DevicesOn(aIn, images[aCursor])
       IN  page_analyses' = Append(page_analyses,
               [page_number        |-> page_num,
                is_fire_alarm_page |-> Len(devices) > 0,
                page_type          |-> classify_page_type(devices),
                devices            |-> devices,
                keyed_notes        |-> <<>>,
                specifications     |-> <<>>])
    /\ aCursor' = aCursor + 1
    /\ UNCHANGED <<aIn, aPhase, images, aResult>>
    /\ UNCHANGED <<cacheVars, histVars, heapVars, runVars, tileVars, nmsVars,
                   lockVars, tempVars, modelVars>>

AnalyseDone ==
    /\ aPhase = "analyse"
    /\ aCursor > Len(images)
    /\ aPhase' = "done"
    /\ aResult' =
         [success |-> TRUE,
          total_pages_scanned |-> Len(images),
          pages_with_devices |->
              Cardinality({i \in 1..Len(page_analyses) :
                              page_analyses[i].devices # <<>>}),
          page_analyses |-> page_analyses]
    /\ UNCHANGED <<aIn, images, page_analyses, aCursor>>
    /\ UNCHANGED <<cacheVars, histVars, heapVars, runVars, tileVars, nmsVars,
                   lockVars, tempVars, modelVars>>

NextBatch ==
    \/ \E in \in BatchInputs : StartAnalysis(in)
    \/ AnalysePage
    \/ AnalyseDone

SpecBatch == InitBatch /\ [][NextBatch]_vars

\* The pages of the document the caller asked for.
Requested(in) ==
    IF in.selected_pages # <<>>
    THEN {in.selected_pages[i] : i \in 1..Len(in.selected_pages)}
           \cap (1..in.total_pages)
    ELSE 1..in.total_pages

\* The entry a page with tiles and without devices gets.
NoDeviceEntry(p) ==
    [page_number |-> p, is_fire_alarm_page |-> FALSE, page_type |-> "other",
     devices |-> <<>>, keyed_notes |-> <<>>, specifications |-> <<>>]

\* C29: every requested page has an entry in the result.  A page that
\* cannot be rendered or has no tiles has an entry that says so (it differs
\* from the entry of a page without devices), and every other requested
\* page has the entry of its own analysis.
C29_EveryRequestedPageReported ==
    aPhase = "done" =>
        \A p \in Requested(aIn) :
            \E i \in 1..Len(page_analyses) :
                /\ page_analyses[i].page_number = p
                /\ IF aIn.kind[p] \in {"norender", "notiles"}
                   THEN page_analyses[i] # NoDeviceEntry(p)
                   ELSE page_analyses[i].devices = DevicesOn(aIn, p)

\* C35: the i-th page entry is built from the i-th image, and it carries
\* the number of the PDF page that image was rendered from.
C35_EntryNamesItsOwnPage ==
    \A i \in 1..Len(page_analyses) : page_analyses[i].page_number = images[i]

\* The JSON body /api/analyze answers with once _run_local_detection_analysis
\* has returned `results` (job_id left out).
analyze_pdf(results) ==
    LET pages == IF "page_analyses" \in DOMAIN results
                 THEN results.page_analyses ELSE <<>>
        with_devices == {i \in 1..Len(pages) : pages[i].devices # <<>>}
    IN  [success |-> TRUE,
         total_devices |-> Cardinality(with_devices),  \* one device a page
         pages_with_devices |-> Cardinality(with_devices),
         total_pages |-> Len(pages),
         page_analyses |-> pages]

\* C36: /api/analyze answers success = true only when the analysis it ran
\* reported success.
C36_SuccessOnlyWhenAnalysisSucceeded ==
    aPhase = "done" => (analyze_pdf(aResult).success => aResult.success)

-----------------------------------------------------------------------------
(* SpecThreshold: detect_on_tile called with varying confidence           *)
(* thresholds on one detector.  The Detector is asked with                 *)
(* confidence=int(confidence * 100) and answers with the predictions at or *)
(* above it; a cached result is the list of predictions itself.            *)

\* int(confidence * 100) for the thresholds 0.3 and 0.7.
Thresholds == {30, 70}

\* What the Detector yields for content c at threshold pct (percent; the
\* confidences of DetectorOut are in tenths).
DetectorAt(c, pct) ==
    SelectSeq(DetectorOut(c), LAMBDA p : p.confidence * 10 >= pct)

\* detect_on_tile(tile_image, confidence, use_cache), the Detector answering.
DetectAt(c, pct, use_cache) ==
    /\ clock < MaxOps
    /\ clock' = clock + 1
    /\ LET key == get_tile_hash(c)
           g   == IF use_cache THEN TileCache_get(CacheState, key)
                  ELSE [cache |-> cache, hits |-> hits, misses |-> misses,
                        hit |-> FALSE, val |-> <<>>]
           result == IF g.hit THEN g.val ELSE DetectorAt(c, pct)
           w   == IF use_cache /\ ~g.hit THEN TileCache_set(g, key, result)
                  ELSE g
       IN  /\ cache' = w.cache /\ hits' = w.hits /\ misses' = w.misses
           /\ lastCall' = [op |-> "detect", key |-> <<c, pct>>, ret |-> result]
    /\ UNCHANGED <<lastUse, heapVars, runVars, tileVars, nmsVars, lockVars,
                   batchVars, tempVars, modelVars>>

NextThreshold ==
    \E c \in Contents, pct \in Thresholds, use_cache \in BOOLEAN :
        DetectAt(c, pct, use_cache)

SpecThreshold == InitCache /\ [][NextThreshold]_vars

\* C34: what detect_on_tile returns for a tile is what the Detector yields
\* for the tile's content at the threshold of the call, whatever earlier
\* calls cached.
C34_ResultDependsOnCurrentThreshold ==
    lastCall.op = "detect" =>
        lastCall.ret = DetectorAt(lastCall.key[1], lastCall.key[2])

-----------------------------------------------------------------------------
(* SpecTemp: the temporary files of detect_on_tile.  Calls that pass the  *)
(* cache lookup and the image check follow one another on one detector;   *)
(* a file is named by the number of the call that created it.             *)

\* Bound: calls of detect_on_tile.
MaxTempCalls == 5

InitTemp ==
    /\ IdleTemp
    /\ IdleCache /\ IdleHist /\ IdleHeap /\ IdleRun /\ IdleTiler /\ IdleNms
    /\ IdleLock /\ IdleBatch /\ IdleModel

\* Line 168: NamedTemporaryFile(suffix='.jpg', delete=False) creates the file.
TempCreate ==
    /\ dt.pc = "idle"
    /\ dt.n < MaxTempCalls
    /\ tmpFiles' = tmpFiles \cup {dt.n + 1}
    /\ dt' = [pc |-> "save", n |-> dt.n + 1, file |-> dt.n + 1, temp_path |-> 0,
              ret |-> "None"]
    /\ UNCHANGED <<cacheVars, histVars, heapVars, runVars, tileVars, nmsVars,
                   lockVars, batchVars, modelVars>>

\* Lines 169-170: tile_image.save, then temp_path = tmp_file.name.  If save
\* raises, the `with` closes the file (delete=False keeps it) and the outer
\* except returns None.
TempSave(ok) ==
    /\ dt.pc = "save"
    /\ dt' = IF ok
             THEN [dt EXCEPT !.pc = "predict", !.temp_path = dt.file]
             ELSE [dt EXCEPT !.pc = "idle", !.file = 0]
    /\ UNCHANGED tmpFiles
    /\ UNCHANGED <<cacheVars, histVars, heapVars, runVars, tileVars, nmsVars,
                   lockVars, batchVars, modelVars>>

\* Lines 172-186: the prediction (it answers or raises), then the finally
\* that removes temp_path if it exists; the call returns.
TempPredict(ok) ==
    /\ dt.pc = "predict"
    /\ tmpFiles' = tmpFiles \ {dt.temp_path}
    /\ dt' = [dt EXCEPT !.pc = "idle", !.file = 0, !.temp_path = 0,
                         !.ret = IF ok THEN "result" ELSE "None"]
    /\ UNCHANGED <<cacheVars, histVars, heapVars, runVars, tileVars, nmsVars,
                   lockVars, batchVars, modelVars>>

NextTemp ==
    \/ TempCreate
    \/ \E ok \in BOOLEAN : TempSave(ok)
    \/ \E ok \in BOOLEAN : TempPredict(ok)

SpecTemp == InitTemp /\ [][NextTemp]_vars

\* C37: whenever no call of detect_on_tile is in progress, no temporary file
\* of an earlier call exists.
C37_NoTempFileLeftBehind ==
    dt.pc = "idle" => tmpFiles = {}

-----------------------------------------------------------------------------
(* SpecModel: RoboflowDetector._initialize_model, called once by the      *)
(* constructor.  im.log holds the failures logged, im.slept the waits.    *)

\* A retry count one too high (used to test the bound on the attempts).
FourRetries == 3 + 1

max_retries == 3

\* retry_delay before the first wait, in seconds
InitialDelay == 2

\* What an attempt with a usable api_key can fail with: the workspace, the
\* project, the model version, the missing predict method.
AttemptFailures == {"permissions", "project", "version", "predict"}

\* The first iteration of `for attempt in range(max_retries)` is about to
\* run; the api_key is a non-empty string or not.
InitModel ==
    /\ im \in {[pc |-> "try", attempt |-> 0, retry_delay |-> InitialDelay,
                slept |-> <<>>, log |-> <<>>, made |-> 0, api_key |-> k] :
                 k \in BOOLEAN}
    /\ IdleCache /\ IdleHist /\ IdleHeap /\ IdleRun /\ IdleTiler /\ IdleNms
    /\ IdleLock /\ IdleBatch /\ IdleTemp

\* One iteration of the loop: the attempt returns, or it fails and the
\* except block waits and retries, or raises RuntimeError after the last.
Attempt(outcome) ==
    /\ im.pc = "try"
    /\ im.attempt < max_retries
    /\ IF im.api_key THEN outcome \in AttemptFailures \cup {"ok"}
       ELSE outcome = "api_key"
    /\ im' =
         IF outcome = "ok"
         THEN [im EXCEPT !.pc = "returned", !.made = im.made + 1]
         ELSE IF im.attempt < max_retries - 1
              THEN [im EXCEPT !.attempt = im.attempt + 1,
                              !.made = im.made + 1,
                              !.log = Append(im.log, outcome),
                              !.slept = Append(im.slept, im.retry_delay),
                              !.retry_delay = im.retry_delay * 2]
              ELSE [im EXCEPT !.pc = "raised",
                              !.made = im.made + 1,
                              !.log = Append(im.log, outcome)]
    /\ UNCHANGED <<cacheVars, histVars, heapVars, runVars, tileVars, nmsVars,
                   lockVars, batchVars, tempVars>>

NextModel ==
    \E outcome \in AttemptFailures \cup {"ok", "api_key"} : Attempt(outcome)

SpecModel == InitModel /\ [][NextModel]_vars

\* C38: _initialize_model makes at most 3 attempts and, while it is still
\* trying, has made fewer than 3; it has waited 2 s after the first failure
\* and 4 s after the second and never after the third; it has returned only
\* from an attempt that succeeded, with every earlier attempt failed; it has
\* raised exactly when three attempts failed; and once it has returned or
\* raised it makes no further attempt.
C38_BoundedRetries ==
    /\ [](/\ im.made <= 3
          /\ im.pc = "try" => im.made < 3
          /\ im.slept = SubSeq(<<2, 4>>, 1, IF Len(im.log) < 2 THEN Len(im.log) ELSE 2)
          /\ im.pc = "returned" => im.made = Len(im.log) + 1
          /\ im.pc # "returned" => im.made = Len(im.log)
          /\ im.pc = "raised" <=> Len(im.log) = 3)
    /\ [][im.pc \in {"returned", "raised"} => im' = im]_vars

\* Three attempts failed and the call raised.
C38_Witness ==
    im # <<>> /\ im.pc = "raised" /\ im.made = 3 /\ im.slept = <<2, 4>>

=============================================================================
